---- MODULE Spec2Model ----
(***************************************************************************)
(* control-system: the GitHub poller (github/poller.rs), one fetch cycle   *)
(* (github/client.rs), the JSON cache (github/cache.rs) and the frame loop *)
(* of run_app (main.rs), as one state machine; the log buffer             *)
(* (app/logs.rs) and the system-stats sampler (system/stats.rs) beside it. *)
(*                                                                         *)
(* Option<T> is a sequence of length 0 (None) or 1 (Some).  FetchStatus is *)
(* a record [tag, reason].  The u32 sums of compute_stats are plain sums:  *)
(* the modelled counts stay far below 2^32.                                *)
(***************************************************************************)
EXTENDS Integers, Sequences, FiniteSets, TLC

VARIABLES
    \* ---- environment of one behaviour
    outcomes,      \* what the GitHub API can answer to one fetch cycle
    keys,          \* the keys the user presses
    presses,       \* 'r' key presses the user still makes
    restarts,      \* times the program is still started again
    refresh_secs,  \* Config.refresh_secs
    seqCap,        \* how far the sends on the channel are counted
    \* ---- the cache file and the poller task
    cache,         \* the file at Config.cache_path
    ppc,           \* position of the poller task
    current,       \* poller local: state_tx.borrow().clone()
    new_state,     \* poller local: result of fetch_all
    trigger,       \* what started the cycle: "initial", "timer", "refresh"
    watch,         \* value held by the watch channel
    changed,       \* github_rx.has_changed(): a send succeeded
    cmdq,          \* the mpsc command channel (capacity 16)
    \* ---- run_app
    epc,           \* position of run_app
    running,       \* state.running
    actionq,       \* the mpsc action channel (capacity 32)
    view,          \* state.github
    \* ---- history
    inflight,      \* cycles between the start of fetch_all and the end of save
    pubDone,       \* the cycle's result was handed to state_tx.send
    saveDone,      \* the cycle's result was handed to cache.save
    lastSend,      \* argument of the last state_tx.send call
    lastSave,      \* argument of the last cache.save call
    nSent,         \* commands placed on the command channel in this run
    nRecv,         \* commands taken by cmd_rx.recv() in this run
    nRefreshCycles,\* cycles started by a Refresh command in this run
    stopSent,      \* the consumer called send(GithubCommand::Stop)
    stopReceived,  \* the poller took Stop from the channel
    pubSeq,        \* sends that reached the channel, counted up to seqCap
    viewSeq,       \* pubSeq of the value state.github was last assigned
    prevViewSeq,   \* viewSeq before that assignment
    \* ---- one call of fetch_all on its own
    fpc,           \* "off", "idle", "returned"
    fprev,         \* the state handed to fetch_all
    fout,          \* the API's answer to the cycle
    fres,          \* the state fetch_all returned
    fcalls,        \* the requests the call made, in order
    \* ---- one frame's input and actions on their own
    ipc,           \* "off", "input", "actions"
    iq,            \* the action channel
    produced,      \* the actions input produced in the frame, in order
    applied,       \* the actions try_recv returned in the frame, in order
    \* ---- the poller's timer on its own (time in seconds)
    tpc,           \* "off", "fetching", "select", "panicked"
    clock,         \* time since the interval was created
    deadline,      \* the instant the interval's next tick is due
    lastTickAt,    \* when the last timer-triggered cycle started (-1: never)
    skipped,       \* interval boundaries that had passed unserved at that tick
    \* ---- one call of fetch_repos on its own, turn by turn
    rpc,           \* "off", "request", "ok", "err"
    rsrc,          \* the repositories the API serves and how it pages them
    rpage,         \* fetch_repos local: page
    rall,          \* fetch_repos local: all_repos
    rreq,          \* page requests sent by the call
    \* ---- the log buffer shared by the logging sink and the log viewer
    mlock,         \* holder of the Mutex (0: free)
    msgs,          \* the VecDeque behind the Mutex
    lpc,           \* position of each task in its LogBuffer operation
    base,          \* per task inside push: the buffer as it was at the lock
    got,           \* the Vec get_messages has collected
    nmsg,          \* text of the next message
    npush,         \* pushes completed since the buffer was last cleared
    \* ---- the system-stats sampler task
    spc,           \* "off", "tick", "send", "ended"
    sreader,       \* system_rx is alive
    swatch,        \* value held by the sampler's watch channel
    sticks,        \* ticks the task has taken
    spub,          \* sends that succeeded
    safter,        \* ticks taken since the reader was dropped
    environ,       \* the process environment read by Config::from_env
    mpc,           \* main and run_app before the frame loop: the position
    config,        \* the Config main holds, as a set of at most one
    started,       \* what start-up has done so far
    current_page,  \* state.ui.current_page
    scroll_offset, \* state.ui.scroll_offset
    transition_active,     \* state.fx.transition_active
    last_transition_frame, \* state.fx.last_transition_frame
    frame_count,   \* state.fx.frame_count
    old_page,      \* the page before the last page action
    pact           \* the last action applied to the page state

envVars    == <<outcomes, keys, presses, restarts, refresh_secs, seqCap>>
pollerVars == <<cache, ppc, current, new_state, trigger, watch, changed>>
loopVars   == <<epc, running, actionq, view>>
histVars   == <<inflight, pubDone, saveDone, lastSend, lastSave,
                nSent, nRecv, nRefreshCycles, stopSent, stopReceived>>
seqVars    == <<pubSeq, viewSeq, prevViewSeq>>
fetchVars  == <<fpc, fprev, fout, fres, fcalls>>
inputVars  == <<ipc, iq, produced, applied>>
timerVars  == <<tpc, clock, deadline, lastTickAt, skipped>>
reposVars  == <<rpc, rsrc, rpage, rall, rreq>>
logVars    == <<mlock, msgs, lpc, base, got, nmsg, npush>>
samplerVars == <<spc, sreader, swatch, sticks, spub, safter>>
bootVars   == <<environ, mpc, config, started>>
pageVars   == <<current_page, scroll_offset, transition_active,
                last_transition_frame, frame_count, old_page, pact>>
extraVars  == <<bootVars, pageVars>>
moreVars   == <<reposVars, logVars, samplerVars, extraVars>>
sideVars   == <<inputVars, timerVars, moreVars>>
mainVars   == <<envVars, pollerVars, cmdq, loopVars, histVars, seqVars>>
vars == <<mainVars, fetchVars, sideVars>>

----------------------------------------------------------------------------
\* Bounds of the model.
MaxFrameInput == 1     \* terminal events pending at the start of one frame
MaxPresses == 2        \* 'r' presses of one behaviour of Spec
MaxRestarts == 1       \* restarts of the program in one behaviour of Spec
MaxTime == 1           \* distinct values of Utc::now()
MaxSeq == 3            \* sends on the snapshot channel told apart in SpecWatch
MaxClock == 7          \* seconds of SpecTimer after the interval is created
MaxAvail == 250        \* repositories the API holds in SpecRepos
MaxSamples == 40       \* ticks of the sampler while its channel has a reader
MaxPushed == 103       \* pushes between two clears of SpecLog
MsgKinds == 3          \* distinct message texts in SpecLog
MaxFlood == 40         \* key presses pending at the start of a frame of SpecInput

\* Program constants.
CmdCap == 16           \* mpsc::channel::<GithubCommand>(16)
ActionCap == 32        \* mpsc::channel::<Action>(32)
max_repos == 200
max_pages == 10
CACHE_VERSION == 1
DefaultRefreshSecs == 60
MAX_LOG_MESSAGES == 100

----------------------------------------------------------------------------
\* github/models.rs

None == <<>>
Some(x) == <<x>>

Idle == [tag |-> "Idle", reason |-> ""]
Fetching == [tag |-> "Fetching", reason |-> ""]
Success == [tag |-> "Success", reason |-> ""]
Error(r) == [tag |-> "Error", reason |-> r]

GithubRepo(n, s, f, w) ==
    [name |-> n, stargazers_count |-> s, forks_count |-> f, watchers_count |-> w]

RateLimitDefault == [limit |-> 0, remaining |-> 0, reset_at |-> None]

GithubStatsDefault ==
    [total_stars |-> 0, total_forks |-> 0, total_repos |-> 0, total_watchers |-> 0]

GithubStateDefault ==
    [profile |-> None, repos |-> <<>>, events |-> <<>>,
     stats |-> GithubStatsDefault, rate_limit |-> RateLimitDefault,
     last_updated |-> None, status |-> Idle]

\* repos.iter().map(f).sum()
RECURSIVE SumOver(_, _)
SumOver(repos, field) ==
    IF repos = <<>> THEN 0
    ELSE repos[1][field] + SumOver(Tail(repos), field)

\* A slip of compute_stats: the totals are added to the ones already held.
compute_stats_incremental(state) ==
    [state EXCEPT !.stats =
        [total_stars |-> state.stats.total_stars + SumOver(state.repos, "stargazers_count"),
         total_forks |-> state.stats.total_forks + SumOver(state.repos, "forks_count"),
         total_repos |-> state.stats.total_repos + Len(state.repos),
         total_watchers |-> state.stats.total_watchers + SumOver(state.repos, "watchers_count")]]

compute_stats(state) ==
    [state EXCEPT !.stats =
        [total_stars |-> SumOver(state.repos, "stargazers_count"),
         total_forks |-> SumOver(state.repos, "forks_count"),
         total_repos |-> Len(state.repos),
         total_watchers |-> SumOver(state.repos, "watchers_count")]]

----------------------------------------------------------------------------
\* github/client.rs
\*
\* One answer of the API to a cycle is a record
\*   [profile |-> [ok, val], repos |-> [pages, failAt], events |-> [ok, val],
\*    rate |-> [ok, val], now]
\* with ok = FALSE for a request that fails and now the value of Utc::now().
\* repos.pages[p] is what the request of page p returns (past the last page:
\* nothing); the request of page repos.failAt fails (0: none does).

PageOf(src, page) == IF page <= Len(src.pages) THEN src.pages[page] ELSE <<>>

Min(a, b) == IF a < b THEN a ELSE b

\* The loop of fetch_repos from the request of `page` on, with `all_repos`
\* retained so far.  The inner for loop pushes the items of the page one by
\* one and breaks at max_repos.
RECURSIVE fetch_repos_from(_, _, _)
fetch_repos_from(src, page, all_repos) ==
    IF src.failAt = page THEN [ok |-> FALSE, val |-> <<>>]
    ELSE LET items == PageOf(src, page) IN
         IF items = <<>> THEN [ok |-> TRUE, val |-> all_repos]
         ELSE LET take == Min(Len(items), max_repos - Len(all_repos))
                  all2 == all_repos \o SubSeq(items, 1, take)
              IN  IF Len(all2) >= max_repos THEN [ok |-> TRUE, val |-> all2]
                  ELSE IF page + 1 > max_pages THEN [ok |-> TRUE, val |-> all2]
                  ELSE fetch_repos_from(src, page + 1, all2)

fetch_repos(src) == fetch_repos_from(src, 1, <<>>)

\* A slip of the loop: no limit on the pages requested.
repos_turn_unlimited(src, page, all_repos) ==
    IF src.failAt = page THEN [pc |-> "err", page |-> page, all |-> <<>>]
    ELSE LET items == PageOf(src, page) IN
         IF items = <<>> THEN [pc |-> "ok", page |-> page, all |-> all_repos]
         ELSE LET take == Min(Len(items), max_repos - Len(all_repos))
                  all2 == all_repos \o SubSeq(items, 1, take)
              IN  IF Len(all2) >= max_repos
                  THEN [pc |-> "ok", page |-> page, all |-> all2]
                  ELSE [pc |-> "request", page |-> page + 1, all |-> all2]

\* A slip of the loop: the cap is tested with > where the code has >=.
repos_turn_cap_exclusive(src, page, all_repos) ==
    IF src.failAt = page THEN [pc |-> "err", page |-> page, all |-> <<>>]
    ELSE LET items == PageOf(src, page) IN
         IF items = <<>> THEN [pc |-> "ok", page |-> page, all |-> all_repos]
         ELSE LET take == Min(Len(items), max_repos + 1 - Len(all_repos))
                  all2 == all_repos \o SubSeq(items, 1, take)
              IN  IF Len(all2) > max_repos
                  THEN [pc |-> "ok", page |-> page, all |-> all2]
                  ELSE IF page + 1 > max_pages
                  THEN [pc |-> "ok", page |-> page + 1, all |-> all2]
                  ELSE [pc |-> "request", page |-> page + 1, all |-> all2]

\* One turn of the loop of fetch_repos: the request of `page`, the pushes of
\* its items and the tests that leave the loop.  pc tells how the turn ends:
\* "request" (next turn), "ok" (break, Ok(all_repos)), "err" (the ? returns).
repos_turn(src, page, all_repos) ==
    IF src.failAt = page THEN [pc |-> "err", page |-> page, all |-> <<>>]
    ELSE LET items == PageOf(src, page) IN
         IF items = <<>> THEN [pc |-> "ok", page |-> page, all |-> all_repos]
         ELSE LET take == Min(Len(items), max_repos - Len(all_repos))
                  all2 == all_repos \o SubSeq(items, 1, take)
              IN  IF Len(all2) >= max_repos
                  THEN [pc |-> "ok", page |-> page, all |-> all2]
                  ELSE IF page + 1 > max_pages
                  THEN [pc |-> "ok", page |-> page + 1, all |-> all2]
                  ELSE [pc |-> "request", page |-> page + 1, all |-> all2]

\* A slip of fetch_all: the events are compared with an empty set.
EventIds_empty(events) == {}

\* current_state.events.iter().map(|e| e.id.clone()).collect()
EventIds(events) == {events[i].id : i \in 1..Len(events)}

\* The for loop of fetch_events over the rest of the response: an entry lacking
\* a field or with an unparsable date is skipped.
RECURSIVE fetch_events(_, _)
fetch_events(existing_ids, response) ==
    IF response = <<>> THEN <<>>
    ELSE LET event == Head(response)
             rest == fetch_events(existing_ids, Tail(response))
         IN  IF event.wellformed
             THEN <<[id |-> event.id, is_new |-> event.id \notin existing_ids]>> \o rest
             ELSE rest

\* A slip of fetch_all: a failed profile step does not return.
hard_failure_continues(state, reason) == [ok |-> TRUE, state |-> state]

\* A slip of fetch_all: a failed hard step returns a fresh state with Error.
hard_failure_clears(state, reason) ==
    [ok |-> FALSE, state |-> [GithubStateDefault EXCEPT !.status = Error(reason)]]

\* A slip of fetch_all: a failed hard step takes back the profile it fetched.
hard_failure_no_profile(state, reason) ==
    [ok |-> FALSE,
     state |-> [state EXCEPT !.status = Error(reason), !.profile = None]]

\* What fetch_all does on a failed hard step: set Error and return.
hard_failure(state, reason) ==
    [ok |-> FALSE, state |-> [state EXCEPT !.status = Error(reason)]]

\* A slip of the Err arm of a soft step: the field is emptied.
soft_failure_clears(state, field) ==
    [state EXCEPT ![field] = GithubStateDefault[field]]

\* What fetch_all does on a failed soft step: warn! and go on.
soft_failure(state, field) == state

\* A slip of the end of fetch_all: the status is left as the cycle set it.
finish_keeps_fetching(state, now) == [state EXCEPT !.last_updated = Some(now)]

\* A slip of the end of fetch_all: the timestamp is not set.
finish_unstamped(state, now) == [state EXCEPT !.status = Success]

\* state.last_updated = Some(Utc::now()); state.status = FetchStatus::Success
finish(state, now) ==
    [state EXCEPT !.last_updated = Some(now), !.status = Success]

fetch_all(current_state, api) ==
    LET s0 == [current_state EXCEPT !.status = Fetching]
        p  == IF api.profile.ok
              THEN [ok |-> TRUE, state |-> [s0 EXCEPT !.profile = Some(api.profile.val)]]
              ELSE hard_failure(s0, "Profile fetch failed")
    IN  IF ~p.ok THEN p.state
        ELSE
        LET repos == fetch_repos(api.repos)
            r == IF repos.ok
                 THEN [ok |-> TRUE, state |-> [p.state EXCEPT !.repos = repos.val]]
                 ELSE hard_failure(p.state, "Repos fetch failed")
        IN  IF ~r.ok THEN r.state
            ELSE
            LET existing_event_ids == EventIds(current_state.events)
                s3 == IF api.events.ok
                      THEN [r.state EXCEPT !.events =
                                fetch_events(existing_event_ids, api.events.val)]
                      ELSE soft_failure(r.state, "events")
                s4 == IF api.rate.ok
                      THEN [s3 EXCEPT !.rate_limit = api.rate.val]
                      ELSE soft_failure(s3, "rate_limit")
                s5 == compute_stats(s4)
            IN  finish(s5, api.now)

\* The requests fetch_repos sends from the request of `page` on, with n items
\* retained so far: one per turn of its loop.
RECURSIVE fetch_repos_calls(_, _, _)
fetch_repos_calls(src, page, n) ==
    IF src.failAt = page THEN <<<<"repos", page>>>>
    ELSE LET items == PageOf(src, page) IN
         IF items = <<>> THEN <<<<"repos", page>>>>
         ELSE LET n2 == n + Min(Len(items), max_repos - n) IN
              IF n2 >= max_repos \/ page + 1 > max_pages
              THEN <<<<"repos", page>>>>
              ELSE <<<<"repos", page>>>> \o fetch_repos_calls(src, page + 1, n2)

\* A slip of the profile step: a failed request is sent once more.
profile_calls_retry(api) ==
    IF api.profile.ok THEN <<<<"profile", 1>>>>
    ELSE <<<<"profile", 1>>, <<"profile", 1>>>>

\* self.fetch_profile().await: one request.
profile_calls(api) == <<<<"profile", 1>>>>

\* The requests one call of fetch_all sends, in order: the awaits of its body,
\* up to the return of a failed hard step.
fetch_all_calls(api) ==
    profile_calls(api) \o
    (IF ~api.profile.ok THEN <<>>
     ELSE fetch_repos_calls(api.repos, 1, 0) \o
          (IF ~fetch_repos(api.repos).ok THEN <<>>
           ELSE <<<<"events", 1>>, <<"rate_limit", 1>>>>))

----------------------------------------------------------------------------
\* github/cache.rs
\*
\* The file is [kind, data]: kind "absent", "corrupt" (unreadable or not the
\* JSON of a CacheData) or "json" with the CacheData it holds.

CacheData_from(state) ==
    [profile |-> state.profile, repos |-> state.repos, events |-> state.events,
     stats |-> state.stats, rate_limit |-> state.rate_limit,
     last_updated |-> state.last_updated, cache_version |-> CACHE_VERSION]

\* A slip of the conversion: the loaded state is marked as freshly fetched.
to_github_state_success(data) ==
    [profile |-> data.profile, repos |-> data.repos, events |-> data.events,
     stats |-> data.stats, rate_limit |-> data.rate_limit,
     last_updated |-> data.last_updated, status |-> Success]

to_github_state(data) ==
    [profile |-> data.profile, repos |-> data.repos, events |-> data.events,
     stats |-> data.stats, rate_limit |-> data.rate_limit,
     last_updated |-> data.last_updated, status |-> Idle]

AbsentFile == [kind |-> "absent", data |-> CacheData_from(GithubStateDefault)]
CorruptFile == [kind |-> "corrupt", data |-> CacheData_from(GithubStateDefault)]
JsonFile(data) == [kind |-> "json", data |-> data]

\* A slip of load: the version tag is not looked at.
load_any_version(file) ==
    IF file.kind = "absent" THEN [res |-> "none", data |-> file.data]
    ELSE IF file.kind = "corrupt" THEN [res |-> "err", data |-> file.data]
    ELSE [res |-> "some", data |-> file.data]

\* A slip of load: no test of path.exists(), so that reading a missing file
\* fails.
load_no_exists_check(file) ==
    IF file.kind \in {"absent", "corrupt"} THEN [res |-> "err", data |-> file.data]
    ELSE IF file.data.cache_version # CACHE_VERSION
         THEN [res |-> "none", data |-> file.data]
         ELSE [res |-> "some", data |-> file.data]

\* GithubCache::load: Ok(None), Ok(Some(data)) or Err.
load(file) ==
    IF file.kind = "absent" THEN [res |-> "none", data |-> file.data]
    ELSE IF file.kind = "corrupt" THEN [res |-> "err", data |-> file.data]
    ELSE IF file.data.cache_version # CACHE_VERSION
         THEN [res |-> "none", data |-> file.data]
         ELSE [res |-> "some", data |-> file.data]

\* A slip of save: an empty record is written in place of the state.
save_default(file, state, io) ==
    IF io = "ok" THEN JsonFile(CacheData_from(GithubStateDefault))
    ELSE IF io = "partial" THEN CorruptFile
    ELSE file

\* GithubCache::save with the outcome of its I/O: "ok"; "fail", an error
\* before the file is touched; "partial", an error of fs::write once the file
\* was opened for writing.  The two failures return Err.
save(file, state, io) ==
    IF io = "ok" THEN JsonFile(CacheData_from(state))
    ELSE IF io = "partial" THEN CorruptFile
    ELSE file

SaveOutcomes == {"ok", "fail", "partial"}

\* A slip of the Err arm: the failure is kept as the state's status.
load_cached_state_reports(file) ==
    LET l == load(file) IN
    IF l.res = "some" THEN to_github_state(l.data)
    ELSE IF l.res = "err"
         THEN [GithubStateDefault EXCEPT !.status = Error("Failed to load cache")]
         ELSE GithubStateDefault

\* GithubPoller::load_cached_state
load_cached_state(file) ==
    LET l == load(file) IN
    IF l.res = "some" THEN to_github_state(l.data) ELSE GithubStateDefault

----------------------------------------------------------------------------
\* github/poller.rs: the bodies of the two branches of the select, each as a
\* function of the value the channel holds, the cache file, the API's answer,
\* the outcome of the write and whether a receiver is left.  `fetched` lists
\* the states handed to fetch_all.

\* state_tx.send(value): without a receiver the channel keeps its value.
watch_send(chan, value, rx) == IF rx THEN value ELSE chan

\* _ = interval.tick() => { .. }
tick_branch(chan, file, api, io, rx) ==
    LET cur == chan
        ns == fetch_all(cur, api)
    IN  [watch |-> watch_send(chan, ns, rx),
         cache |-> save(file, ns, io),
         fetched |-> <<cur>>]

\* A slip of the Refresh arm: the result is sent and not saved.
refresh_branch_nosave(chan, file, api, io, rx) ==
    LET cur == chan
        ns == fetch_all(cur, api)
    IN  [watch |-> watch_send(chan, ns, rx),
         cache |-> file,
         fetched |-> <<cur>>]

\* GithubCommand::Refresh => { .. }
refresh_branch(chan, file, api, io, rx) ==
    LET cur == chan
        ns == fetch_all(cur, api)
    IN  [watch |-> watch_send(chan, ns, rx),
         cache |-> save(file, ns, io),
         fetched |-> <<cur>>]

----------------------------------------------------------------------------
\* What the environment offers.

RepoA == GithubRepo("a", 42, 10, 42)
RepoB == GithubRepo("b", 1, 3, 2)

ProfileAnswers ==
    {[ok |-> FALSE, val |-> ""], [ok |-> TRUE, val |-> "octocat"],
     [ok |-> TRUE, val |-> "hubot"]}

ReposAnswers ==
    {[pages |-> <<<<RepoA>>>>, failAt |-> 0],
     [pages |-> <<<<RepoA>>, <<RepoB>>>>, failAt |-> 0],
     [pages |-> <<<<RepoA>>, <<RepoB>>>>, failAt |-> 2],
     [pages |-> <<<<RepoB>>>>, failAt |-> 1],
     [pages |-> <<<<RepoA>>>>, failAt |-> 3]}

RawEvent(id, wf) == [id |-> id, wellformed |-> wf]

EventsAnswers ==
    {[ok |-> FALSE, val |-> <<>>],
     [ok |-> TRUE, val |-> <<RawEvent("evt_1", TRUE)>>],
     [ok |-> TRUE, val |-> <<RawEvent("evt_2", TRUE), RawEvent("evt_1", TRUE)>>],
     [ok |-> TRUE, val |-> <<RawEvent("evt_3", FALSE), RawEvent("evt_2", TRUE),
                             RawEvent("evt_2", TRUE)>>]}

Times == 1..MaxTime

RateAnswers ==
    {[ok |-> FALSE, val |-> RateLimitDefault],
     [ok |-> TRUE, val |-> [limit |-> 5000, remaining |-> 4990, reset_at |-> Some(1)]]}

\* Every answer of the API.
ApiAnswers ==
    {[profile |-> p, repos |-> r, events |-> e, rate |-> l, now |-> t] :
        p \in ProfileAnswers, r \in ReposAnswers, e \in EventsAnswers,
        l \in RateAnswers, t \in Times}

\* No request is answered.
NoAnswer ==
    [profile |-> [ok |-> FALSE, val |-> ""],
     repos |-> [pages |-> <<<<RepoA>>>>, failAt |-> 1],
     events |-> [ok |-> FALSE, val |-> <<>>],
     rate |-> [ok |-> FALSE, val |-> RateLimitDefault],
     now |-> 1]

\* An API that is down: every cycle fails at the profile step.
ApiDown == {NoAnswer}

\* An API that answers a cycle in full or not at all.
ApiSmall ==
    ApiDown \cup
    {[profile |-> [ok |-> TRUE, val |-> "octocat"],
      repos |-> [pages |-> <<<<RepoA>>>>, failAt |-> 0],
      events |-> [ok |-> TRUE, val |-> <<RawEvent("evt_1", TRUE)>>],
      rate |-> [ok |-> TRUE,
                val |-> [limit |-> 5000, remaining |-> 4990, reset_at |-> Some(1)]],
      now |-> 1]}

\* A cache file left by another version of the program.
OtherVersionFile ==
    JsonFile([CacheData_from([GithubStateDefault EXCEPT !.repos = <<RepoB>>])
                EXCEPT !.cache_version = CACHE_VERSION + 1])

InitialFiles == {AbsentFile, CorruptFile, OtherVersionFile}

Keys == {"q", "r", "x"}

\* Action::from_key_event, for the keys of Keys.
from_key_event(key) ==
    IF key = "q" THEN "Quit"
    ELSE IF key = "r" THEN "RefreshGithub"
    ELSE "None"

RECURSIVE SeqsUpTo(_, _)
SeqsUpTo(S, n) ==
    IF n = 0 THEN {<<>>}
    ELSE LET shorter == SeqsUpTo(S, n - 1) IN
         shorter \cup {Append(q, x) : q \in shorter, x \in S}

Count(seq, x) == Cardinality({i \in 1..Len(seq) : seq[i] = x})

\* The terminal events pending at the start of a frame.
FrameInputs == {evs \in SeqsUpTo(keys, MaxFrameInput) : Count(evs, "r") <= presses}

----------------------------------------------------------------------------
\* main.rs and github/poller.rs: the state of a freshly started process that
\* finds `file` at the cache path.

\* github_rx lives until run_app returns.
RxAlive == epc \notin {"done", "error"}

\* cmd_rx and state_tx live until the poller task ends.
PollerAlive == ppc \notin {"stopped", "panicked"}

ProcessStart(file) ==
    LET initial_github_state == load_cached_state(file) IN
    /\ cache = file
    /\ ppc = "start"
    /\ current = initial_github_state
    /\ new_state = initial_github_state
    /\ trigger = "none"
    /\ watch = initial_github_state
    /\ changed = FALSE
    /\ cmdq = <<>>
    /\ epc = "input"
    /\ running = TRUE
    /\ actionq = <<>>
    /\ view = initial_github_state
    /\ inflight = 0
    /\ pubDone = FALSE
    /\ saveDone = FALSE
    /\ lastSend = initial_github_state
    /\ lastSave = initial_github_state
    /\ nSent = 0
    /\ nRecv = 0
    /\ nRefreshCycles = 0
    /\ stopSent = FALSE
    /\ stopReceived = FALSE
    /\ pubSeq = 0
    /\ viewSeq = 0
    /\ prevViewSeq = 0

FetchIdle ==
    /\ fpc = "off"
    /\ fprev = GithubStateDefault
    /\ fout = NoAnswer
    /\ fres = GithubStateDefault
    /\ fcalls = <<>>

InputIdle ==
    /\ ipc = "off"
    /\ iq = <<>>
    /\ produced = <<>>
    /\ applied = <<>>

TimerIdle ==
    /\ tpc = "off"
    /\ clock = 0
    /\ deadline = 0
    /\ lastTickAt = -1
    /\ skipped = 0

ReposIdle ==
    /\ rpc = "off"
    /\ rsrc = [pages |-> <<>>, failAt |-> 0, n |-> 0, size |-> 1]
    /\ rpage = 1
    /\ rall = <<>>
    /\ rreq = 0

Pushers == {1, 2}
Viewer == 3

LogIdle ==
    /\ mlock = 0
    /\ msgs = <<>>
    /\ lpc = [t \in Pushers \cup {Viewer} |-> "idle"]
    /\ base = [t \in Pushers |-> <<>>]
    /\ got = <<>>
    /\ nmsg = 0
    /\ npush = 0

SamplerIdle ==
    /\ spc = "off"
    /\ sreader = TRUE
    /\ swatch = 0
    /\ sticks = 0
    /\ spub = 0
    /\ safter = 0

BootIdle ==
    /\ environ = [GITHUB_USER |-> {}, GITHUB_TOKEN |-> {},
                  CONTROL_SYSTEM_REFRESH_SECS |-> {}]
    /\ mpc = "off"
    /\ config = {}
    /\ started = {}

\* UiState::default() and FxState::default()
PageIdle ==
    /\ current_page = "Dashboard"
    /\ scroll_offset = 0
    /\ transition_active = FALSE
    /\ last_transition_frame = 0
    /\ frame_count = 0
    /\ old_page = "Dashboard"
    /\ pact = [kind |-> "None", index |-> 0]

ExtraIdle ==
    /\ BootIdle
    /\ PageIdle

MoreIdle ==
    /\ ReposIdle
    /\ LogIdle
    /\ SamplerIdle
    /\ ExtraIdle

Init ==
    /\ outcomes = ApiSmall
    /\ keys = Keys
    /\ presses = MaxPresses
    /\ restarts = MaxRestarts
    /\ refresh_secs \in {0, DefaultRefreshSecs}
    /\ seqCap = 0
    /\ ProcessStart(AbsentFile)
    /\ FetchIdle
    /\ InputIdle
    /\ TimerIdle
    /\ MoreIdle

----------------------------------------------------------------------------
\* github/poller.rs: the task spawned by GithubPoller::start.

\* A poller that spares the API: no cycle while the last rate-limit record
\* shows the quota used up.
StartCycle_rate_gated(why) ==
    IF watch.rate_limit.limit > 0 /\ watch.rate_limit.remaining = 0
    THEN /\ ppc' = "select"
         /\ UNCHANGED <<current, trigger, inflight, pubDone, saveDone>>
    ELSE /\ current' = watch
         /\ trigger' = why
         /\ ppc' = "fetching"
         /\ inflight' = inflight + 1
         /\ pubDone' = FALSE
         /\ saveDone' = FALSE

\* let current = state_tx.borrow().clone(); client.fetch_all(&current) begins.
StartCycle(why) ==
    /\ current' = watch
    /\ trigger' = why
    /\ ppc' = "fetching"
    /\ inflight' = inflight + 1
    /\ pubDone' = FALSE
    /\ saveDone' = FALSE

\* A reentrant poller: the select is polled while a cycle is running.
PollerAtSelect_reentrant == ppc \in {"select", "fetching", "publish", "save"}

\* The task is at tokio::select!, between two iterations of its loop.
PollerAtSelect == ppc = "select"

\* tokio::time::interval panics on a zero period; otherwise the initial fetch.
PollerStart ==
    /\ ppc = "start"
    /\ IF refresh_secs = 0
       THEN /\ ppc' = "panicked"
            /\ UNCHANGED <<current, trigger, inflight, pubDone, saveDone>>
       ELSE StartCycle("initial")
    /\ UNCHANGED <<envVars, cache, new_state, watch, changed, cmdq, loopVars,
                   lastSend, lastSave, nSent, nRecv, nRefreshCycles, stopSent,
                   stopReceived, fetchVars, sideVars, seqVars>>

\* client.fetch_all(&current).await returns.
PollerFetchReturn ==
    /\ ppc = "fetching"
    /\ \E api \in outcomes : new_state' = fetch_all(current, api)
    /\ ppc' = "publish"
    /\ UNCHANGED <<envVars, cache, current, trigger, watch, changed, cmdq,
                   loopVars, histVars, fetchVars, sideVars, seqVars>>

\* A slip of a branch: the cycle goes back to the select without saving.
AfterPublish_nosave == "select"

\* Where a cycle goes after state_tx.send: to cache.save.
AfterPublish == "save"

\* let _ = state_tx.send(new_state.clone()): with no receiver left the send
\* fails and the channel keeps its value.
PollerPublish ==
    /\ ppc = "publish"
    /\ IF RxAlive
       THEN /\ watch' = new_state
            /\ changed' = TRUE
            /\ pubSeq' = Min(pubSeq + 1, seqCap)
       ELSE UNCHANGED <<watch, changed, pubSeq>>
    /\ lastSend' = new_state
    /\ pubDone' = TRUE
    /\ ppc' = AfterPublish
    /\ UNCHANGED <<envVars, cache, current, new_state, trigger, cmdq, loopVars,
                   inflight, saveDone, lastSave, nSent, nRecv, nRefreshCycles,
                   stopSent, stopReceived, viewSeq, prevViewSeq, fetchVars,
                   sideVars>>

\* A slip of the save: cache.save(..).await? ends the task on a failure.
AfterSave_propagates(io) == IF io = "ok" THEN "select" ELSE "stopped"

\* Where a cycle goes after cache.save returned with outcome io: the Err is
\* logged and the task reaches the select.
AfterSave(io) == "select"

\* if let Err(e) = cache.save(&new_state).await { error!(..) }
PollerSave ==
    /\ ppc = "save"
    /\ \E io \in SaveOutcomes :
         /\ cache' = save(cache, new_state, io)
         /\ ppc' = AfterSave(io)
    /\ lastSave' = new_state
    /\ saveDone' = TRUE
    /\ inflight' = inflight - 1
    /\ UNCHANGED <<envVars, current, new_state, trigger, watch, changed, cmdq,
                   loopVars, pubDone, lastSend, nSent, nRecv, nRefreshCycles,
                   stopSent, stopReceived, fetchVars, sideVars, seqVars>>

\* _ = interval.tick() => { one cycle }
PollerTick ==
    /\ PollerAtSelect
    /\ StartCycle("timer")
    /\ UNCHANGED <<envVars, cache, new_state, watch, changed, cmdq, loopVars,
                   lastSend, lastSave, nSent, nRecv, nRefreshCycles, stopSent,
                   stopReceived, fetchVars, sideVars, seqVars>>

\* cmd_rx.recv() takes the oldest command off the channel.
Dequeue(q) == Tail(q)

\* A slip of the Stop branch: the loop goes on.
AfterStop_continue == "select"

\* GithubCommand::Stop => break
AfterStop == "stopped"

\* Some(cmd) = cmd_rx.recv() => match cmd { Refresh => one cycle, Stop => break }
PollerRecv ==
    /\ PollerAtSelect
    /\ cmdq # <<>>
    /\ cmdq' = Dequeue(cmdq)
    /\ nRecv' = nRecv + 1
    /\ IF Head(cmdq) = "Refresh"
       THEN /\ StartCycle("refresh")
            /\ nRefreshCycles' = nRefreshCycles + 1
            /\ UNCHANGED stopReceived
       ELSE /\ ppc' = AfterStop
            /\ stopReceived' = TRUE
            /\ UNCHANGED <<current, trigger, inflight, pubDone, saveDone,
                           nRefreshCycles>>
    /\ UNCHANGED <<envVars, cache, new_state, watch, changed, loopVars,
                   lastSend, lastSave, nSent, stopSent,
                   fetchVars, sideVars, seqVars>>

----------------------------------------------------------------------------
\* main.rs: run_app.

\* A slip of the enqueue: the action is queued whatever the channel holds.
try_send_unbounded(q, action) == Append(q, action)

\* action_tx.try_send(action): dropped when the channel is full.
try_send(q, action) == IF Len(q) < ActionCap THEN Append(q, action) ELSE q

RECURSIVE try_send_all(_, _)
try_send_all(q, evs) ==
    IF evs = <<>> THEN q
    ELSE try_send_all(try_send(q, from_key_event(Head(evs))), Tail(evs))

\* github_cmd_tx.send(cmd).await completes once the channel has room (or at
\* once, with Err, when the poller task has ended).
SendReady(q) == Len(q) < CmdCap \/ ~PollerAlive

\* A channel that is no queue: the command sent is received first.
SendTo_front(q, cmd) == IF PollerAlive /\ Len(q) < CmdCap THEN <<cmd>> \o q ELSE q

\* The channel after a completed send of cmd.
SendTo(q, cmd) == IF PollerAlive /\ Len(q) < CmdCap THEN Append(q, cmd) ELSE q

\* while event::poll(0)? { match event::read()? { .. try_send .. } }
LoopInput ==
    /\ epc = "input"
    /\ \E evs \in FrameInputs :
         /\ actionq' = try_send_all(actionq, evs)
         /\ presses' = presses - Count(evs, "r")
    /\ epc' = "actions"
    /\ UNCHANGED <<outcomes, keys, restarts, refresh_secs, seqCap, pollerVars, cmdq,
                   running, view, histVars, fetchVars, sideVars, seqVars>>

\* event::poll or event::read returns Err: run_app returns it.
LoopInputError ==
    /\ epc = "input"
    /\ epc' = "error"
    /\ UNCHANGED <<envVars, pollerVars, cmdq, running, actionq, view, histVars,
                   fetchVars, sideVars, seqVars>>

\* The variants of Action.
ActionKinds ==
    {"Quit", "NextPage", "PrevPage", "GoToPage", "CycleFocus", "ToggleHelp",
     "TogglePause", "RefreshGithub", "ScrollUp", "ScrollDown", "SelectNext",
     "SelectPrev", "None"}

\* A slip of the RefreshGithub arm: the consumer marks its copy as fetching.
apply_action_marks_fetching(github, action) ==
    IF action = "RefreshGithub" THEN [github EXCEPT !.status = Fetching]
    ELSE github

\* What the arms of match action do to state.github: they write state.running,
\* state.ui and state.fx, and send on github_cmd_tx.
apply_action(github, action) == github

\* One turn of while let Ok(action) = action_rx.try_recv().
LoopAction ==
    /\ epc = "actions"
    /\ actionq # <<>>
    /\ actionq' = Tail(actionq)
    /\ running' = IF Head(actionq) = "Quit" THEN FALSE ELSE running
    /\ view' = apply_action(view, Head(actionq))
    /\ epc' = IF Head(actionq) = "RefreshGithub" THEN "send_refresh" ELSE "actions"
    /\ UNCHANGED <<envVars, pollerVars, cmdq, histVars, fetchVars, sideVars, seqVars>>

\* let _ = github_cmd_tx.send(GithubCommand::Refresh).await
LoopSendRefresh ==
    /\ epc = "send_refresh"
    /\ SendReady(cmdq)
    /\ cmdq' = SendTo(cmdq, "Refresh")
    /\ nSent' = Len(cmdq') - Len(cmdq) + nSent
    /\ epc' = "actions"
    /\ UNCHANGED <<envVars, pollerVars, running, actionq, view, inflight,
                   pubDone, saveDone, lastSend, lastSave, nRecv, nRefreshCycles,
                   stopSent, stopReceived, fetchVars, sideVars, seqVars>>

\* A slip of the update: the channel is never looked at.
has_changed_never == FALSE

\* github_rx.has_changed().unwrap_or(false): Err once the sender is dropped,
\* else whether a value was sent that the receiver has not marked seen
\* (borrow() marks nothing).
has_changed == PollerAlive /\ changed

\* try_recv finds the action channel empty;
\* if github_rx.has_changed().unwrap_or(false) { state.github = borrow().clone() }
LoopUpdate ==
    /\ epc = "actions"
    /\ actionq = <<>>
    /\ IF has_changed
       THEN /\ view' = watch
            /\ viewSeq' = pubSeq
            /\ prevViewSeq' = viewSeq
       ELSE UNCHANGED <<view, viewSeq, prevViewSeq>>
    /\ epc' = "render"
    /\ UNCHANGED <<envVars, pollerVars, cmdq, running, actionq, histVars,
                   pubSeq, fetchVars, sideVars>>

\* A slip of the loop head: loop { .. } with no test of state.running.
while_running_forever(r) == "input"

\* while state.running { .. }: the next frame, or the clean-up after the loop.
while_running(r) == IF r THEN "input" ELSE "cleanup"

\* terminal.draw(..)? fails and run_app returns the error; or the frame is
\* drawn, the loop sleeps for the rest of the frame (tokio::time::sleep) and
\* tests while state.running.
LoopRender ==
    /\ epc = "render"
    /\ epc' \in {"error", while_running(running)}
    /\ UNCHANGED <<envVars, pollerVars, cmdq, running, actionq, view, histVars,
                   fetchVars, sideVars, seqVars>>

\* let _ = github_cmd_tx.send(GithubCommand::Stop).await; Ok(())
LoopSendStop ==
    /\ epc = "cleanup"
    /\ SendReady(cmdq)
    /\ cmdq' = SendTo(cmdq, "Stop")
    /\ nSent' = Len(cmdq') - Len(cmdq) + nSent
    /\ stopSent' = TRUE
    /\ epc' = "done"
    /\ UNCHANGED <<envVars, pollerVars, running, actionq, view, inflight,
                   pubDone, saveDone, lastSend, lastSave, nRecv, nRefreshCycles,
                   stopReceived, fetchVars, sideVars, seqVars>>

\* main returns, the process ends with its tasks, and the program is started
\* again on the cache file it left; a write cut short leaves a damaged file.
Restart ==
    /\ epc \in {"done", "error"}
    /\ restarts > 0
    /\ restarts' = restarts - 1
    /\ \E file \in {cache} \cup (IF ppc = "save" THEN {CorruptFile} ELSE {}) :
        LET initial_github_state == load_cached_state(file) IN
        /\ cache' = file
        /\ ppc' = "start"
        /\ current' = initial_github_state
        /\ new_state' = initial_github_state
        /\ trigger' = "none"
        /\ watch' = initial_github_state
        /\ changed' = FALSE
        /\ cmdq' = <<>>
        /\ epc' = "input"
        /\ running' = TRUE
        /\ actionq' = <<>>
        /\ view' = initial_github_state
        /\ inflight' = 0
        /\ pubDone' = FALSE
        /\ saveDone' = FALSE
        /\ lastSend' = initial_github_state
        /\ lastSave' = initial_github_state
        /\ nSent' = 0
        /\ nRecv' = 0
        /\ nRefreshCycles' = 0
        /\ stopSent' = FALSE
        /\ stopReceived' = FALSE
        /\ pubSeq' = 0
        /\ viewSeq' = 0
        /\ prevViewSeq' = 0
    /\ UNCHANGED <<outcomes, keys, presses, refresh_secs, seqCap, fetchVars, sideVars>>

Next ==
    \/ PollerStart
    \/ PollerFetchReturn
    \/ PollerPublish
    \/ PollerSave
    \/ PollerTick
    \/ PollerRecv
    \/ LoopInput
    \/ LoopInputError
    \/ LoopAction
    \/ LoopSendRefresh
    \/ LoopUpdate
    \/ LoopRender
    \/ LoopSendStop
    \/ Restart

Spec == Init /\ [][Next]_vars

\* The user keeps 'r' pressed while the API is down.
BurstPresses == CmdCap + 2

InitBurst ==
    /\ outcomes = ApiDown
    /\ keys = Keys
    /\ presses = BurstPresses
    /\ restarts = MaxRestarts
    /\ refresh_secs = DefaultRefreshSecs
    /\ seqCap = 0
    /\ ProcessStart(AbsentFile)
    /\ FetchIdle
    /\ InputIdle
    /\ TimerIdle
    /\ MoreIdle

SpecBurst == InitBurst /\ [][Next]_vars

\* The sends on the snapshot channel are counted: which one a frame reads.
InitWatch ==
    /\ outcomes = ApiSmall
    /\ keys = {"q", "r"}
    /\ presses = 1
    /\ restarts = 1
    /\ refresh_secs \in {0, DefaultRefreshSecs}
    /\ seqCap = MaxSeq
    /\ ProcessStart(AbsentFile)
    /\ FetchIdle
    /\ InputIdle
    /\ TimerIdle
    /\ MoreIdle

SpecWatch == InitWatch /\ [][Next]_vars

\* The program started on each kind of cache file.
InitStart ==
    /\ outcomes = ApiSmall
    /\ keys = {"q", "r"}
    /\ presses = 1
    /\ restarts = 1
    /\ refresh_secs \in {0, DefaultRefreshSecs}
    /\ seqCap = 0
    /\ \E file \in InitialFiles : ProcessStart(file)
    /\ FetchIdle
    /\ InputIdle
    /\ TimerIdle
    /\ MoreIdle

SpecStart == InitStart /\ [][Next]_vars

\* The rate-limit records the API can answer with: the quota used up, and
\* most of it left.
RateRecords ==
    {[limit |-> 60, remaining |-> 0, reset_at |-> Some(1)],
     [limit |-> 5000, remaining |-> 4990, reset_at |-> Some(1)]}

\* An API that is down or answers in full, with any of the rate-limit records.
ApiRates ==
    ApiDown \cup
    {[profile |-> [ok |-> TRUE, val |-> "octocat"],
      repos |-> [pages |-> <<<<RepoA>>>>, failAt |-> 0],
      events |-> [ok |-> TRUE, val |-> <<RawEvent("evt_1", TRUE)>>],
      rate |-> [ok |-> TRUE, val |-> l],
      now |-> 1] : l \in RateRecords}

InitRate ==
    /\ outcomes = ApiRates
    /\ keys = {"q", "r"}
    /\ presses = 1
    /\ restarts = 1
    /\ refresh_secs = DefaultRefreshSecs
    /\ seqCap = 0
    /\ ProcessStart(AbsentFile)
    /\ FetchIdle
    /\ InputIdle
    /\ TimerIdle
    /\ MoreIdle

SpecRate == InitRate /\ [][Next]_vars

----------------------------------------------------------------------------
\* The input and action steps of one frame on their own, with up to MaxFlood
\* key presses pending at the start of the frame.

KeyCycle == <<"x", "r", "q">>

\* n key presses: the keys of KeyCycle in turn, starting after the off-th.
Presses(n, off) == [i \in 1..n |-> KeyCycle[((i + off) % 3) + 1]]

RECURSIVE Actions(_)
Actions(evs) ==
    IF evs = <<>> THEN <<>>
    ELSE <<from_key_event(Head(evs))>> \o Actions(Tail(evs))

InitInput ==
    /\ outcomes = ApiDown
    /\ keys = Keys
    /\ presses = 0
    /\ restarts = 0
    /\ refresh_secs = DefaultRefreshSecs
    /\ seqCap = 0
    /\ ProcessStart(AbsentFile)
    /\ FetchIdle
    /\ TimerIdle
    /\ MoreIdle
    /\ ipc = "input"
    /\ iq = <<>>
    /\ produced = <<>>
    /\ applied = <<>>

\* while event::poll(0)? { .. let _ = action_tx.try_send(action); .. }
InputDrain ==
    /\ ipc = "input"
    /\ \E n \in 0..MaxFlood, off \in 0..2 :
         /\ produced' = Actions(Presses(n, off))
         /\ iq' = try_send_all(iq, Presses(n, off))
    /\ applied' = <<>>
    /\ ipc' = "actions"
    /\ UNCHANGED <<mainVars, fetchVars, timerVars, moreVars>>

\* One turn of while let Ok(action) = action_rx.try_recv() { match action .. }
InputApply ==
    /\ ipc = "actions"
    /\ iq # <<>>
    /\ applied' = Append(applied, Head(iq))
    /\ iq' = Tail(iq)
    /\ UNCHANGED <<ipc, produced, mainVars, fetchVars, timerVars, moreVars>>

\* try_recv returns Err(Empty): the rest of the frame, and the next frame.
InputFrameEnd ==
    /\ ipc = "actions"
    /\ iq = <<>>
    /\ ipc' = "input"
    /\ UNCHANGED <<iq, produced, applied, mainVars, fetchVars, timerVars, moreVars>>

NextInput ==
    \/ InputDrain
    \/ InputApply
    \/ InputFrameEnd

SpecInput == InitInput /\ [][NextInput]_vars

----------------------------------------------------------------------------
\* The poller's interval on its own, in whole seconds since its creation.
\* Cycles take any time; the Refresh command starts cycles of its own.

\* MissedTickBehavior::Burst, the default of tokio::time::interval.
next_timeout_burst(timeout, now, period) == timeout + period

\* MissedTickBehavior::Skip: the deadline after a tick delivered at now that
\* was due at timeout.
next_timeout(timeout, now, period) ==
    IF now > timeout
    THEN now + period - ((now - timeout) % period)
    ELSE timeout + period

Periods == {0, 2, 3}

InitTimer ==
    /\ outcomes = ApiDown
    /\ keys = Keys
    /\ presses = 0
    /\ restarts = 0
    /\ refresh_secs \in Periods
    /\ seqCap = 0
    /\ ProcessStart(AbsentFile)
    /\ FetchIdle
    /\ InputIdle
    /\ TimerIdle
    /\ MoreIdle

\* tokio::time::interval(refresh_interval), Skip, then the initial cycle.
TimerStart ==
    /\ tpc = "off"
    /\ IF refresh_secs = 0
       THEN tpc' = "panicked" /\ UNCHANGED deadline
       ELSE tpc' = "fetching" /\ deadline' = clock
    /\ UNCHANGED <<clock, lastTickAt, skipped, mainVars, fetchVars, inputVars, moreVars>>

\* The cycle in progress reaches the select.
TimerCycleEnd ==
    /\ tpc = "fetching"
    /\ tpc' = "select"
    /\ UNCHANGED <<clock, deadline, lastTickAt, skipped, mainVars, fetchVars, inputVars, moreVars>>

\* _ = interval.tick() => { .. }: ready once the deadline is reached.
TimerTick ==
    /\ tpc = "select"
    /\ clock >= deadline
    /\ deadline' = next_timeout(deadline, clock, refresh_secs)
    /\ lastTickAt' = clock
    /\ skipped' = (clock - deadline) \div refresh_secs
    /\ tpc' = "fetching"
    /\ UNCHANGED <<clock, mainVars, fetchVars, inputVars, moreVars>>

\* Some(cmd) = cmd_rx.recv() => Refresh: a cycle that leaves the interval alone.
TimerRefresh ==
    /\ tpc = "select"
    /\ tpc' = "fetching"
    /\ UNCHANGED <<clock, deadline, lastTickAt, skipped, mainVars, fetchVars, inputVars, moreVars>>

\* A second passes, in a cycle or at the select.
TimerAdvance ==
    /\ tpc \in {"fetching", "select"}
    /\ clock < MaxClock
    /\ clock' = clock + 1
    /\ UNCHANGED <<tpc, deadline, lastTickAt, skipped, mainVars, fetchVars, inputVars, moreVars>>

NextTimer ==
    \/ TimerStart
    \/ TimerCycleEnd
    \/ TimerTick
    \/ TimerRefresh
    \/ TimerAdvance

SpecTimer == InitTimer /\ [][NextTimer]_vars

----------------------------------------------------------------------------
\* One call of fetch_repos on its own, against an API that holds n
\* repositories, numbered in the order it serves them, in pages of `size`.

PagesOf(n, size) ==
    [p \in 1..((n + size - 1) \div size) |->
        [i \in 1..Min(size, n - (p - 1) * size) |-> (p - 1) * size + i]]

PageSizes == {1, 75, 100}

RepoSource(n, size, failAt) ==
    [pages |-> PagesOf(n, size), failAt |-> failAt, n |-> n, size |-> size]

exceptRepos == <<mainVars, fetchVars, inputVars, timerVars, logVars, samplerVars,
                 extraVars>>

InitRepos ==
    /\ outcomes = ApiDown
    /\ keys = Keys
    /\ presses = 0
    /\ restarts = 0
    /\ refresh_secs = DefaultRefreshSecs
    /\ seqCap = 0
    /\ ProcessStart(AbsentFile)
    /\ FetchIdle
    /\ InputIdle
    /\ TimerIdle
    /\ ExtraIdle
    /\ LogIdle
    /\ SamplerIdle
    /\ rpc = "request"
    /\ \E n \in 0..MaxAvail, size \in PageSizes, failAt \in {0, 1, 3} :
         rsrc = RepoSource(n, size, failAt)
    /\ rpage = 1
    /\ rall = <<>>
    /\ rreq = 0

\* loop { let repos = ..page(page).send().await?; .. }
ReposTurn ==
    /\ rpc = "request"
    /\ LET t == repos_turn(rsrc, rpage, rall) IN
         /\ rpc' = t.pc
         /\ rpage' = t.page
         /\ rall' = t.all
    /\ rreq' = rreq + 1
    /\ UNCHANGED <<rsrc, exceptRepos>>

\* The next cycle calls fetch_repos again; the account may have gained a
\* repository in between.
ReposAgain ==
    /\ rpc \in {"ok", "err"}
    /\ \E n \in {rsrc.n, Min(rsrc.n + 1, MaxAvail)} :
         rsrc' = RepoSource(n, rsrc.size, rsrc.failAt)
    /\ rpc' = "request"
    /\ rpage' = 1
    /\ rall' = <<>>
    /\ rreq' = 0
    /\ UNCHANGED exceptRepos

NextRepos ==
    \/ ReposTurn
    \/ ReposAgain

SpecRepos == InitRepos /\ [][NextRepos]_vars

----------------------------------------------------------------------------
\* app/logs.rs: the LogBuffer, pushed to by the logging sink on two threads
\* of the runtime and read by the log viewer.  Each operation takes the
\* Mutex, works on the VecDeque and drops the guard.

\* A slip of the buffer: the deque is reached without waiting for the lock.
lock_ready_always(holder) == TRUE

\* self.messages.lock() returns once no thread holds the mutex.
lock_ready(holder) == holder = 0

\* A slip of push: the newest message is evicted.
pop_back(q) == SubSeq(q, 1, Len(q) - 1)

\* VecDeque::pop_front
pop_front(q) == Tail(q)

exceptLog == <<mainVars, fetchVars, inputVars, timerVars, reposVars, samplerVars,
               extraVars>>

InitLog ==
    /\ outcomes = ApiDown
    /\ keys = Keys
    /\ presses = 0
    /\ restarts = 0
    /\ refresh_secs = DefaultRefreshSecs
    /\ seqCap = 0
    /\ ProcessStart(AbsentFile)
    /\ FetchIdle
    /\ InputIdle
    /\ TimerIdle
    /\ ExtraIdle
    /\ ReposIdle
    /\ SamplerIdle
    /\ LogIdle

\* push: if let Ok(mut msgs) = self.messages.lock()
PushLock(t) ==
    /\ lpc[t] = "idle"
    /\ npush + Cardinality({u \in Pushers : lpc[u] # "idle"}) < MaxPushed
    /\ lock_ready(mlock)
    /\ mlock' = t
    /\ base' = [base EXCEPT ![t] = msgs]
    /\ lpc' = [lpc EXCEPT ![t] = "push_locked"]
    /\ UNCHANGED <<msgs, got, nmsg, npush, exceptLog>>

\* push: if msgs.len() >= MAX_LOG_MESSAGES { msgs.pop_front(); }
PushPop(t) ==
    /\ lpc[t] = "push_locked"
    /\ msgs' = IF Len(msgs) >= MAX_LOG_MESSAGES THEN pop_front(msgs) ELSE msgs
    /\ lpc' = [lpc EXCEPT ![t] = "push_room"]
    /\ UNCHANGED <<mlock, base, got, nmsg, npush, exceptLog>>

\* push: msgs.push_back(..); the guard is dropped.
PushBack(t) ==
    /\ lpc[t] = "push_room"
    /\ msgs' = Append(msgs, nmsg)
    /\ nmsg' = (nmsg + 1) % MsgKinds
    /\ npush' = npush + 1
    /\ mlock' = 0
    /\ base' = [base EXCEPT ![t] = <<>>]
    /\ lpc' = [lpc EXCEPT ![t] = "idle"]
    /\ UNCHANGED <<got, exceptLog>>

\* get_messages: if let Ok(msgs) = self.messages.lock()
GetLock ==
    /\ lpc[Viewer] = "idle"
    /\ lock_ready(mlock)
    /\ mlock' = Viewer
    /\ lpc' = [lpc EXCEPT ![Viewer] = "get_locked"]
    /\ UNCHANGED <<msgs, base, got, nmsg, npush, exceptLog>>

\* get_messages: msgs.iter().cloned().collect()
GetCollect ==
    /\ lpc[Viewer] = "get_locked"
    /\ got' = msgs
    /\ lpc' = [lpc EXCEPT ![Viewer] = "get_collected"]
    /\ UNCHANGED <<mlock, msgs, base, nmsg, npush, exceptLog>>

\* get_messages returns the Vec, the guard is dropped and the widget is drawn.
GetReturn ==
    /\ lpc[Viewer] = "get_collected"
    /\ mlock' = 0
    /\ got' = <<>>
    /\ lpc' = [lpc EXCEPT ![Viewer] = "idle"]
    /\ UNCHANGED <<msgs, base, nmsg, npush, exceptLog>>

\* clear: if let Ok(mut msgs) = self.messages.lock()
ClearLock ==
    /\ lpc[Viewer] = "idle"
    /\ lock_ready(mlock)
    /\ mlock' = Viewer
    /\ lpc' = [lpc EXCEPT ![Viewer] = "clear_locked"]
    /\ UNCHANGED <<msgs, base, got, nmsg, npush, exceptLog>>

\* clear: msgs.clear(); the guard is dropped.
ClearDo ==
    /\ lpc[Viewer] = "clear_locked"
    /\ msgs' = <<>>
    /\ mlock' = 0
    /\ npush' = 0
    /\ lpc' = [lpc EXCEPT ![Viewer] = "idle"]
    /\ UNCHANGED <<base, got, nmsg, exceptLog>>

NextLog ==
    \/ \E t \in Pushers : PushLock(t)
    \/ \E t \in Pushers : PushPop(t)
    \/ \E t \in Pushers : PushBack(t)
    \/ GetLock
    \/ GetCollect
    \/ GetReturn
    \/ ClearLock
    \/ ClearDo

SpecLog == InitLog /\ [][NextLog]_vars

----------------------------------------------------------------------------
\* system/stats.rs: the task spawned by SystemStats::start_poller.  The
\* sample collected at the n-th tick is n.

\* A slip of the loop: let _ = tx.send(state), the result is not looked at.
send_failed_ignored(reader) == FALSE

\* tx.send(state).is_err(): the watch channel has no receiver left.
send_failed(reader) == ~reader

exceptSampler == <<mainVars, fetchVars, inputVars, timerVars, reposVars, logVars,
                   extraVars>>

InitSampler ==
    /\ outcomes = ApiDown
    /\ keys = Keys
    /\ presses = 0
    /\ restarts = 0
    /\ refresh_secs = DefaultRefreshSecs
    /\ seqCap = 0
    /\ ProcessStart(AbsentFile)
    /\ FetchIdle
    /\ InputIdle
    /\ TimerIdle
    /\ ExtraIdle
    /\ ReposIdle
    /\ LogIdle
    /\ SamplerIdle

\* watch::channel(SystemState::default()); tokio::spawn(..)
SamplerSpawn ==
    /\ spc = "off"
    /\ spc' = "tick"
    /\ UNCHANGED <<sreader, swatch, sticks, spub, safter, exceptSampler>>

\* interval.tick().await; let state = stats.collect();
SamplerTick ==
    /\ spc = "tick"
    /\ sticks < MaxSamples \/ (~sreader /\ safter = 0)
    /\ sticks' = sticks + 1
    /\ safter' = IF sreader THEN 0 ELSE safter + 1
    /\ spc' = "send"
    /\ UNCHANGED <<sreader, swatch, spub, exceptSampler>>

\* if tx.send(state).is_err() { break; }
SamplerSend ==
    /\ spc = "send"
    /\ IF sreader
       THEN swatch' = sticks /\ spub' = spub + 1
       ELSE UNCHANGED <<swatch, spub>>
    /\ spc' = IF send_failed(sreader) THEN "ended" ELSE "tick"
    /\ UNCHANGED <<sreader, sticks, safter, exceptSampler>>

\* run_app returns: system_rx, the only receiver, is dropped.
SamplerReaderDrop ==
    /\ spc # "off"
    /\ sreader
    /\ sreader' = FALSE
    /\ UNCHANGED <<spc, swatch, sticks, spub, safter, exceptSampler>>

NextSampler ==
    \/ SamplerSpawn
    \/ SamplerTick
    \/ SamplerSend
    \/ SamplerReaderDrop

\* The interval keeps ticking and the runtime keeps polling the task.
SpecSampler ==
    /\ InitSampler
    /\ [][NextSampler]_vars
    /\ WF_vars(SamplerSpawn)
    /\ WF_vars(SamplerTick)
    /\ WF_vars(SamplerSend)

----------------------------------------------------------------------------
\* Start-up: main (main.rs:40-80) and run_app up to its first frame
\* (main.rs:100-129), with Config::from_env (config/load.rs:22-46).

\* An environment variable is a set of at most one value; a value is a
\* sequence of characters.
Chars == {"0", "6", "x", "+"}

MaxVarLen == 2

Texts == UNION {[1..n -> Chars] : n \in 0..MaxVarLen}

UserName == <<"x">>

Token == <<"6", "x">>

DigitOf(c) == IF c = "6" THEN 6 ELSE 0

IsDigit(c) == c \in {"0", "6"}

RECURSIVE DigitsValue(_)
DigitsValue(s) ==
    IF s = <<>> THEN 0
    ELSE 10 * DigitsValue(SubSeq(s, 1, Len(s) - 1)) + DigitOf(s[Len(s)])

\* str::parse::<u64>: an optional '+', then one digit or more; anything
\* else is an error, here the empty set.
parse_u64(s) ==
    LET digits == IF s # <<>> /\ s[1] = "+" THEN Tail(s) ELSE s
    IN  IF digits # <<>> /\ \A i \in 1..Len(digits) : IsDigit(digits[i])
        THEN {DigitsValue(digits)}
        ELSE {}

\* .ok().and_then(|s| s.parse().ok()).unwrap_or(60)
read_refresh_secs(var) ==
    LET parsed == UNION {parse_u64(s) : s \in var}
    IN  IF parsed = {} THEN DefaultRefreshSecs ELSE CHOOSE n \in parsed : TRUE

\* A slip of from_env: the token required as the username is.
from_env_token_required(e) ==
    IF e.GITHUB_USER = {} \/ e.GITHUB_TOKEN = {}
    THEN {}
    ELSE {[github_token |-> e.GITHUB_TOKEN,
           github_user |-> CHOOSE u \in e.GITHUB_USER : TRUE,
           refresh_secs |-> read_refresh_secs(e.CONTROL_SYSTEM_REFRESH_SECS)]}

\* Config::from_env: the Config, or nothing where it returns Err.
from_env(e) ==
    IF e.GITHUB_USER = {}
    THEN {}
    ELSE {[github_token |-> e.GITHUB_TOKEN,
           github_user |-> CHOOSE u \in e.GITHUB_USER : TRUE,
           refresh_secs |-> read_refresh_secs(e.CONTROL_SYSTEM_REFRESH_SECS)]}

exceptBoot == <<mainVars, fetchVars, inputVars, timerVars, reposVars, logVars,
                samplerVars, pageVars>>

InitBoot ==
    /\ outcomes = ApiDown
    /\ keys = Keys
    /\ presses = 0
    /\ restarts = 0
    /\ refresh_secs = DefaultRefreshSecs
    /\ seqCap = 0
    /\ ProcessStart(AbsentFile)
    /\ FetchIdle
    /\ InputIdle
    /\ TimerIdle
    /\ ReposIdle
    /\ LogIdle
    /\ SamplerIdle
    /\ PageIdle
    /\ environ \in [GITHUB_USER : {{}, {UserName}},
                    GITHUB_TOKEN : {{}, {Token}},
                    CONTROL_SYSTEM_REFRESH_SECS : {{}} \cup {{s} : s \in Texts}]
    /\ mpc = "from_env"
    /\ config = {}
    /\ started = {}

\* let config = Config::from_env()?;
MainFromEnv ==
    /\ mpc = "from_env"
    /\ config' = from_env(environ)
    /\ mpc' = IF config' = {} THEN "config_error" ELSE "setup_terminal"
    /\ UNCHANGED <<environ, started, exceptBoot>>

\* let mut terminal = setup_terminal()?;
RunAppSetupTerminal ==
    /\ mpc = "setup_terminal"
    /\ mpc' \in {"poller_new", "terminal_error"}
    /\ UNCHANGED <<environ, config, started, exceptBoot>>

\* GithubPoller::new(&config)?: the client is built with the token or
\* without it, and the build fails or not whichever it is.
RunAppPollerNew ==
    /\ mpc = "poller_new"
    /\ mpc' \in {"load_cached_state", "client_error"}
    /\ UNCHANGED <<environ, config, started, exceptBoot>>

\* poller.load_cached_state().await
RunAppLoadCache ==
    /\ mpc = "load_cached_state"
    /\ started' = started \cup {"cache_read"}
    /\ mpc' = "poller_start"
    /\ UNCHANGED <<environ, config, exceptBoot>>

\* poller.start(initial_github_state)
RunAppPollerStart ==
    /\ mpc = "poller_start"
    /\ started' = started \cup {"poller"}
    /\ mpc' = "start_sampler"
    /\ UNCHANGED <<environ, config, exceptBoot>>

\* SystemStats::start_poller(Duration::from_secs(2))
RunAppStartSampler ==
    /\ mpc = "start_sampler"
    /\ started' = started \cup {"sampler"}
    /\ mpc' = "loop"
    /\ UNCHANGED <<environ, config, exceptBoot>>

\* while state.running { .. }: the first frame begins.
RunAppFirstFrame ==
    /\ mpc = "loop"
    /\ started' = started \cup {"frame"}
    /\ mpc' = "in_frame"
    /\ UNCHANGED <<environ, config, exceptBoot>>

NextBoot ==
    \/ MainFromEnv
    \/ RunAppSetupTerminal
    \/ RunAppPollerNew
    \/ RunAppLoadCache
    \/ RunAppPollerStart
    \/ RunAppStartSampler
    \/ RunAppFirstFrame

SpecBoot == InitBoot /\ [][NextBoot]_vars

----------------------------------------------------------------------------
\* app/state.rs and the page, scroll and animation arms of run_app's
\* match action (main.rs:191-230), with FxState::tick once a frame.

MaxIndex == 5          \* largest index of a GoToPage action
MaxScroll == 2         \* lines scrolled down
MaxFrames == 22        \* frames of SpecPage

PageOrder == <<"Dashboard", "Repositories", "Activity", "Settings">>

\* Page::index
Page_index(page) == CHOOSE i \in 0..3 : PageOrder[i + 1] = page

\* A slip of from_index: an index out of range selects the last page.
Page_from_index_clamped(i) == IF i <= 3 THEN PageOrder[i + 1] ELSE "Settings"

\* Page::from_index: _ => Page::Dashboard
Page_from_index(i) == IF i <= 3 THEN PageOrder[i + 1] ELSE "Dashboard"

\* Page::next
Page_next(page) == Page_from_index((Page_index(page) + 1) % 4)

\* Page::prev
Page_prev(page) == Page_from_index((Page_index(page) + 3) % 4)

\* FxState::start_transition, and state.ui.scroll_offset = 0
start_transition ==
    /\ transition_active' = TRUE
    /\ last_transition_frame' = frame_count
    /\ scroll_offset' = 0

exceptPage == <<mainVars, fetchVars, inputVars, timerVars, reposVars, logVars,
                samplerVars, bootVars>>

InitPage ==
    /\ outcomes = ApiDown
    /\ keys = Keys
    /\ presses = 0
    /\ restarts = 0
    /\ refresh_secs = DefaultRefreshSecs
    /\ seqCap = 0
    /\ ProcessStart(AbsentFile)
    /\ FetchIdle
    /\ InputIdle
    /\ TimerIdle
    /\ ReposIdle
    /\ LogIdle
    /\ SamplerIdle
    /\ BootIdle
    /\ PageIdle

\* Action::NextPage
ActNextPage ==
    /\ pact' = [kind |-> "NextPage", index |-> 0]
    /\ old_page' = current_page
    /\ current_page' = Page_next(current_page)
    /\ IF old_page' # current_page'
       THEN start_transition
       ELSE UNCHANGED <<transition_active, last_transition_frame, scroll_offset>>
    /\ UNCHANGED <<frame_count, exceptPage>>

\* Action::PrevPage
ActPrevPage ==
    /\ pact' = [kind |-> "PrevPage", index |-> 0]
    /\ old_page' = current_page
    /\ current_page' = Page_prev(current_page)
    /\ IF old_page' # current_page'
       THEN start_transition
       ELSE UNCHANGED <<transition_active, last_transition_frame, scroll_offset>>
    /\ UNCHANGED <<frame_count, exceptPage>>

\* Action::GoToPage(index)
ActGoToPage(i) ==
    LET new_page == Page_from_index(i) IN
    /\ pact' = [kind |-> "GoToPage", index |-> i]
    /\ old_page' = current_page
    /\ IF current_page # new_page
       THEN /\ current_page' = new_page
            /\ start_transition
       ELSE UNCHANGED <<current_page, transition_active, last_transition_frame,
                        scroll_offset>>
    /\ UNCHANGED <<frame_count, exceptPage>>

\* Action::ScrollUp: saturating_sub(1)
ActScrollUp ==
    /\ pact' = [kind |-> "ScrollUp", index |-> 0]
    /\ scroll_offset' = IF scroll_offset = 0 THEN 0 ELSE scroll_offset - 1
    /\ UNCHANGED <<current_page, transition_active, last_transition_frame,
                   frame_count, old_page, exceptPage>>

\* Action::ScrollDown: saturating_add(1)
ActScrollDown ==
    /\ scroll_offset < MaxScroll
    /\ pact' = [kind |-> "ScrollDown", index |-> 0]
    /\ scroll_offset' = scroll_offset + 1
    /\ UNCHANGED <<current_page, transition_active, last_transition_frame,
                   frame_count, old_page, exceptPage>>

\* state.fx.tick(delta_ms): the frame is counted and a transition older than
\* 20 frames ends.
FxTick ==
    /\ frame_count < MaxFrames
    /\ pact' = [kind |-> "Tick", index |-> 0]
    /\ frame_count' = frame_count + 1
    /\ transition_active' =
          IF transition_active /\ frame_count' - last_transition_frame > 20
          THEN FALSE
          ELSE transition_active
    /\ UNCHANGED <<current_page, scroll_offset, last_transition_frame, old_page,
                   exceptPage>>

NextPageSpec ==
    \/ ActNextPage
    \/ ActPrevPage
    \/ \E i \in 0..MaxIndex : ActGoToPage(i)
    \/ ActScrollUp
    \/ ActScrollDown
    \/ FxTick

SpecPage == InitPage /\ [][NextPageSpec]_vars



----------------------------------------------------------------------------
\* One run of the program: no restart.
NextRun ==
    \/ PollerStart
    \/ PollerFetchReturn
    \/ PollerPublish
    \/ PollerSave
    \/ PollerTick
    \/ PollerRecv
    \/ LoopInput
    \/ LoopInputError
    \/ LoopAction
    \/ LoopSendRefresh
    \/ LoopUpdate
    \/ LoopRender
    \/ LoopSendStop

\* Every step of a fetch cycle returns, and the select takes a command that
\* stays ready: the timer is not ready again before a full period.
Fairness ==
    /\ WF_vars(PollerStart)
    /\ WF_vars(PollerFetchReturn)
    /\ WF_vars(PollerPublish)
    /\ WF_vars(PollerSave)
    /\ SF_vars(PollerRecv)

FairSpec == Init /\ [][NextRun]_vars /\ Fairness

----------------------------------------------------------------------------
\* The data path of the poller on its own: cycle after cycle of fetch_all,
\* the next cycle fed from the channel, and restarts from the cache file.
\* A restart reads the file the last successful save wrote, so the states a
\* restart can begin with are the results of earlier cycles; the file is not
\* kept as a variable here, a restart follows the save of any result.

InitFetch ==
    /\ outcomes = ApiDown
    /\ keys = Keys
    /\ presses = 0
    /\ restarts = 0
    /\ refresh_secs = DefaultRefreshSecs
    /\ seqCap = 0
    /\ ProcessStart(AbsentFile)
    /\ InputIdle
    /\ TimerIdle
    /\ MoreIdle
    /\ fpc = "idle"
    /\ \E file \in InitialFiles : fprev = load_cached_state(file)
    /\ fout = NoAnswer
    /\ fres = fprev
    /\ fcalls = <<>>

\* let new_state = client.fetch_all(&current).await
FetchCall ==
    /\ fpc = "idle"
    /\ \E api \in ApiAnswers :
         /\ fout' = api
         /\ fres' = fetch_all(fprev, api)
         /\ fcalls' = fetch_all_calls(api)
    /\ fpc' = "returned"
    /\ UNCHANGED <<fprev, mainVars, sideVars>>

\* The next cycle starts from state_tx.borrow(): the result just sent, or,
\* when the send failed for want of a receiver, the value sent before.
FetchNext ==
    /\ fpc = "returned"
    /\ \E rx \in BOOLEAN :
          fprev' = tick_branch(fprev, AbsentFile, fout, "ok", rx).watch
    /\ fres' = fprev'
    /\ fout' = NoAnswer
    /\ fcalls' = <<>>
    /\ fpc' = "idle"
    /\ UNCHANGED <<mainVars, sideVars>>

\* cache.save(&new_state), and the program started again: load_cached_state.
FetchRestart ==
    /\ fpc = "returned"
    /\ \E file \in InitialFiles, io \in SaveOutcomes :
          fprev' = load_cached_state(
                       refresh_branch(fprev, file, fout, io, TRUE).cache)
    /\ fres' = fprev'
    /\ fout' = NoAnswer
    /\ fcalls' = <<>>
    /\ fpc' = "idle"
    /\ UNCHANGED <<mainVars, sideVars>>

NextFetch ==
    \/ FetchCall
    \/ FetchNext
    \/ FetchRestart

SpecFetch == InitFetch /\ [][NextFetch]_vars

----------------------------------------------------------------------------
\* Properties.

\* The pages of a repository answer before page p hold n items in all.
RECURSIVE ItemsBefore(_, _)
ItemsBefore(src, p) ==
    IF p <= 1 THEN 0 ELSE ItemsBefore(src, p - 1) + Len(PageOf(src, p - 1))

\* The repository step fails: the request that fails is one the cycle makes
\* (every page before it is non-empty and leaves the retained items under the
\* cap, and it is within the page limit).
ReposStepFails(src) ==
    /\ src.failAt \in 1..max_pages
    /\ \A p \in 1..(src.failAt - 1) : PageOf(src, p) # <<>>
    /\ ItemsBefore(src, src.failAt) < max_repos

HardStepFails(api) == ~api.profile.ok \/ ReposStepFails(api.repos)

\* C1: the status fetch_all returns is Error exactly when the profile step or
\* the repository step failed in that cycle and Success otherwise, whatever the
\* events and rate-limit steps did; the result is the same for every status the
\* previous state may carry.
C1_StatusIffHardFailure ==
    fpc = "returned" =>
        /\ (fres.status.tag = "Error") <=> HardStepFails(fout)
        /\ ~HardStepFails(fout) => fres.status = Success
        /\ \A st \in {Idle, Fetching, Success, Error("Profile fetch failed")} :
              fetch_all([fprev EXCEPT !.status = st], fout) = fres

\* A cycle reaches Success after a failed one although its two soft steps fail.
C1_Witness ==
    /\ fpc = "returned"
    /\ fprev.status.tag = "Error"
    /\ ~fout.events.ok /\ ~fout.rate.ok
    /\ fres.status = Success

StatsOf(repos) ==
    [total_stars |-> SumOver(repos, "stargazers_count"),
     total_forks |-> SumOver(repos, "forks_count"),
     total_repos |-> Len(repos),
     total_watchers |-> SumOver(repos, "watchers_count")]

\* C2: from the default state or a state loaded from a saved cache, after any
\* sequence of successful, hard-failed and soft-failed cycles, the result the
\* poller publishes has stats equal to the sums and the count over the
\* repositories of that same result.
C2_StatsMatchRepos ==
    fpc = "returned" => fres.stats = StatsOf(fres.repos)

\* A cycle fails at the second repository page after a cycle that retained two
\* repositories.
C2_Witness ==
    /\ fpc = "returned"
    /\ fres.status = Error("Repos fetch failed")
    /\ Len(fres.repos) = 2
    /\ fres.stats.total_stars = 43

\* C3: no step of a frame waits on the poller: the send of a Refresh command
\* completes however long the poller's cycle takes and however many commands
\* are queued.
C3_FrameNeverWaitsOnPoller ==
    ~(epc = "send_refresh" /\ ~SendReady(cmdq))

\* C4: at most one fetch cycle (fetch, publish, persist) is in progress at any
\* time; a tick or a Refresh that arrives during a cycle starts none until the
\* running one has persisted.
C4_OneCycleAtATime ==
    /\ inflight \in {0, 1}
    /\ inflight = 1 <=> ppc \in {"fetching", "publish", "save"}

\* A Refresh command waits on the channel while a cycle is running.
C4_Witness ==
    /\ inflight = 1
    /\ ppc = "save"
    /\ cmdq # <<>>
    /\ Head(cmdq) = "Refresh"

\* C5: every cycle the poller starts, ending in Success or in Error, has its
\* result handed to state_tx.send and the same result handed to cache.save
\* before the next cycle or the exit of the loop.
C5_CyclePublishedAndSaved ==
    ppc \in {"select", "stopped"} =>
        /\ pubDone /\ lastSend = new_state
        /\ saveDone /\ lastSave = new_state

\* A Refresh-triggered cycle that ended in Error is over.
C5_Witness ==
    /\ ppc = "select"
    /\ trigger = "refresh"
    /\ new_state.status.tag = "Error"
    /\ pubDone /\ saveDone

\* C6: once the poller has taken Stop its loop has exited: it starts no cycle,
\* sends no snapshot and writes no cache file, and the channel keeps its value.
C6_NothingAfterStop ==
    [][ /\ stopReceived' => ppc' = "stopped"
        /\ (stopReceived /\ stopReceived') =>
              /\ inflight' = inflight
              /\ watch' = watch
              /\ cache' = cache
              /\ lastSend' = lastSend
              /\ lastSave' = lastSave ]_vars

\* The poller has stopped after a cycle that ended in Success.
C6_Witness ==
    /\ stopReceived
    /\ ppc = "stopped"
    /\ watch.status = Success

\* C7 as stated: when the consumer issues Stop, no fetch cycle is in flight.
C7_NoCycleInFlightWhenStopIssued ==
    [][ (~stopSent /\ stopSent') => inflight = 0 ]_vars

\* C7, amended: when the poller takes Stop off the channel, no fetch cycle is
\* in flight.
C7_NoCycleInFlightWhenStopTaken ==
    [][ (~stopReceived /\ stopReceived') => (inflight = 0 /\ inflight' = 0) ]_vars

\* Stop was taken after a Refresh-triggered cycle that was queued before it.
C7_Witness ==
    /\ stopReceived
    /\ trigger = "refresh"
    /\ nRecv = 2

\* C8: on every exit of run_app after the poller was started, Quit or an
\* input-polling or rendering error, Stop is sent to the poller.
C8_StopSentOnEveryExit ==
    epc \in {"done", "error"} => stopSent

\* C9: after the frame loop has ended, sending Stop never waits for the poller,
\* however many commands are queued.
C9_ShutdownNeverWaits ==
    ~(epc = "cleanup" /\ ~SendReady(cmdq))

\* Commands placed are those taken plus those still queued, and each Refresh
\* taken started a cycle of its own.
C10_TakenOnce ==
    /\ nRecv + Len(cmdq) = nSent
    /\ nRefreshCycles = nRecv - (IF stopReceived THEN 1 ELSE 0)

\* C10: every command the consumer places on the channel is taken by the
\* poller's select exactly once, never twice and, under fair scheduling,
\* eventually; each Refresh taken starts one cycle of its own.
C10_EveryCommandTakenOnce ==
    /\ []C10_TakenOnce
    /\ \A k \in 1..(MaxPresses + 1) : (nSent >= k) ~> (nRecv >= k)

\* C11: from the same channel value, cache file and fetch outcomes, the tick
\* branch and the Refresh branch leave the same channel value and the same
\* cache file, each after one call of fetch_all on the value the channel held.
C11_RefreshEqualsTick ==
    fpc = "returned" =>
        \A file \in {CorruptFile, JsonFile(CacheData_from(fprev))},
           io \in SaveOutcomes, rx \in BOOLEAN :
            LET t == tick_branch(fprev, file, fout, io, rx)
                r == refresh_branch(fprev, file, fout, io, rx)
            IN  /\ r.watch = t.watch
                /\ r.cache = t.cache
                /\ r.fetched = <<fprev>> /\ t.fetched = <<fprev>>
                /\ rx => r.watch = fres
                /\ io = "ok" => r.cache = JsonFile(CacheData_from(fres))

\* A cycle on a state that holds repositories ends in Error: either branch
\* publishes it and writes it over the cache.
C11_Witness ==
    /\ fpc = "returned"
    /\ fprev.repos # <<>>
    /\ fres.status.tag = "Error"
    /\ refresh_branch(fprev, AbsentFile, fout, "ok", TRUE)
         = [watch |-> fres, cache |-> JsonFile(CacheData_from(fres)),
            fetched |-> <<fprev>>]

KeptFields == {"profile", "repos", "events", "stats", "rate_limit", "last_updated"}

\* C15: when the profile step fails, fetch_all returns Error with profile,
\* repositories, events, stats, rate limit and timestamp those of the previous
\* state, and the only request made is the profile's.
C15_ProfileFailureKeepsAll ==
    (fpc = "returned" /\ ~fout.profile.ok) =>
        /\ fres.status = Error("Profile fetch failed")
        /\ \A f \in KeptFields : fres[f] = fprev[f]
        /\ fcalls = <<<<"profile", 1>>>>

\* The profile step fails on a state that holds a profile, repositories,
\* events and a timestamp.
C15_Witness ==
    /\ fpc = "returned"
    /\ ~fout.profile.ok
    /\ fprev.profile # None /\ fprev.repos # <<>> /\ fprev.events # <<>>
    /\ fprev.last_updated # None
    /\ fres.repos = fprev.repos

\* C16: when the profile step succeeds and the repository step fails,
\* fetch_all returns Error with the profile just fetched and with repositories,
\* events, stats, rate limit and timestamp those of the previous state; the
\* events and rate-limit requests are not made.
C16_ReposFailureKeepsRest ==
    (fpc = "returned" /\ fout.profile.ok /\ ReposStepFails(fout.repos)) =>
        /\ fres.status = Error("Repos fetch failed")
        /\ fres.profile = Some(fout.profile.val)
        /\ \A f \in KeptFields \ {"profile"} : fres[f] = fprev[f]
        /\ \A i \in 1..Len(fcalls) : fcalls[i][1] \in {"profile", "repos"}

\* The second repository page fails after the profile changed: the new profile
\* is kept with the old repositories.
C16_Witness ==
    /\ fpc = "returned"
    /\ fout.profile.ok /\ fout.repos.failAt = 2
    /\ fprev.profile # None /\ fprev.profile # fres.profile
    /\ fprev.repos # <<>> /\ fres.repos = fprev.repos

\* The items of all pages, in order.
RECURSIVE Concat(_)
Concat(pages) == IF pages = <<>> THEN <<>> ELSE Head(pages) \o Concat(Tail(pages))

\* C17: a failed events step leaves events those of the previous state, a
\* failed rate-limit step leaves the rate limit that of the previous state, and
\* the cycle goes on: profile, repositories and stats are the fetched ones and
\* the status is Success.
C17_SoftFailureKeepsField ==
    (fpc = "returned" /\ ~HardStepFails(fout)) =>
        /\ ~fout.events.ok => fres.events = fprev.events
        /\ ~fout.rate.ok => fres.rate_limit = fprev.rate_limit
        /\ fout.rate.ok => fres.rate_limit = fout.rate.val
        /\ fres.profile = Some(fout.profile.val)
        /\ fres.repos = Concat(fout.repos.pages)
        /\ fres.stats = StatsOf(Concat(fout.repos.pages))
        /\ fres.status = Success

\* The scenario of the specification: one repository (42, 10, 42), the events
\* step fails, the rate-limit step answers 5000 / 4990.
C17_Witness ==
    /\ fpc = "returned"
    /\ fout.profile.ok /\ fout.repos = [pages |-> <<<<RepoA>>>>, failAt |-> 0]
    /\ ~fout.events.ok /\ fout.rate.ok
    /\ fprev.events # <<>>
    /\ fres.status = Success
    /\ fres.stats = [total_stars |-> 42, total_forks |-> 10, total_repos |-> 1,
                     total_watchers |-> 42]
    /\ fres.rate_limit.remaining = 4990
    /\ fres.events = fprev.events

\* The well-formed entries of a response, in order.
RECURSIVE WellFormed(_)
WellFormed(response) ==
    IF response = <<>> THEN <<>>
    ELSE (IF Head(response).wellformed THEN <<Head(response).id>> ELSE <<>>)
         \o WellFormed(Tail(response))

Rank(call) ==
    CASE call[1] = "profile" -> 1
      [] call[1] = "repos" -> 2
      [] call[1] = "events" -> 3
      [] call[1] = "rate_limit" -> 4

\* C19: the requests of one cycle come in the order profile, repository pages
\* 1, 2, .., events, rate limit, none of them twice; after a failed profile or
\* repository request no request follows.
C19_StepsOnceInOrder ==
    fpc = "returned" =>
        /\ \A i, j \in 1..Len(fcalls) :
              i < j => \/ Rank(fcalls[i]) < Rank(fcalls[j])
                       \/ /\ fcalls[i][1] = "repos" /\ fcalls[j][1] = "repos"
                          /\ fcalls[i][2] < fcalls[j][2]
        /\ fcalls[1] = <<"profile", 1>>
        /\ ~fout.profile.ok => Len(fcalls) = 1
        /\ (fout.profile.ok /\ ReposStepFails(fout.repos)) =>
              fcalls[Len(fcalls)] = <<"repos", fout.repos.failAt>>
        /\ ~HardStepFails(fout) =>
              SubSeq(fcalls, Len(fcalls) - 1, Len(fcalls))
                  = <<<<"events", 1>>, <<"rate_limit", 1>>>>

\* The second repository page fails: profile, page 1, page 2 and nothing more.
C19_Witness ==
    /\ fpc = "returned"
    /\ fcalls = <<<<"profile", 1>>, <<"repos", 1>>, <<"repos", 2>>>>
    /\ fres.status.tag = "Error"

\* C20: a result with status Success carries the timestamp of its cycle, and a
\* cycle that ends in Error leaves the timestamp that of the previous state.
C20_TimestampOnlyOnSuccess ==
    fpc = "returned" =>
        /\ fres.status = Success => fres.last_updated = Some(fout.now)
        /\ fres.status.tag = "Error" => fres.last_updated = fprev.last_updated
        /\ fres.status.tag \in {"Success", "Error"}

\* A first cycle from the empty state fails and has no timestamp.
C20_Witness ==
    /\ fpc = "returned"
    /\ fprev = GithubStateDefault
    /\ fout.profile.ok /\ ReposStepFails(fout.repos)
    /\ fres.last_updated = None

\* C13: the update step of a frame leaves state.github equal to the value the
\* channel holds at the read, the last one sent, however many were sent since
\* the frame before; what the consumer holds is never older than what it held.
C13_ViewIsLatestSnapshot ==
    [][ /\ (epc = "actions" /\ epc' = "render") =>
              (view' = watch /\ viewSeq' = pubSeq)
        /\ ~(epc \in {"done", "error"} /\ epc' = "input") =>
              (viewSeq <= viewSeq' /\ viewSeq' <= pubSeq') ]_vars

\* A frame reads the third snapshot sent, the frame before it read the first:
\* the second was never observed.
C13_Witness ==
    /\ epc = "render"
    /\ prevViewSeq = 1
    /\ viewSeq = 3
    /\ view = watch

Prefix(seq, n) == SubSeq(seq, 1, Min(Len(seq), n))

\* C14: of the n actions the input of one frame produces against the empty
\* 32-slot action channel, the first min(n, 32) are accepted and applied in
\* the order they arrived and the others are dropped; the draining step is
\* never held up.
C14_First32AppliedInOrder ==
    /\ ipc = "input" => (iq = <<>> /\ ENABLED InputDrain)
    /\ ipc = "actions" =>
          /\ Len(iq) <= ActionCap
          /\ applied \o iq = Prefix(produced, ActionCap)
    /\ (ipc = "input" /\ produced # <<>>) => applied = Prefix(produced, ActionCap)

\* The scenario of the specification: 40 events in one frame, 32 applied.
C14_Witness ==
    /\ ipc = "input"
    /\ Len(produced) = 40
    /\ Len(applied) = 32
    /\ applied = SubSeq(produced, 1, 32)

\* The first instant after t at which the interval is due: the interval is
\* created at 0 and is due every refresh_secs seconds.
NextBoundaryAfter(t) == refresh_secs * ((t \div refresh_secs) + 1)

TimerCycleStarts == tpc = "select" /\ tpc' = "fetching" /\ deadline' # deadline

\* C12: ticks missed while a cycle runs are dropped: a timer-triggered cycle
\* starts only if an interval boundary was reached since the previous
\* timer-triggered cycle started, so that after a cycle spanning any number
\* of intervals one timer-triggered cycle runs and the next one waits for
\* the next boundary.
C12_MissedTicksDropped ==
    [][ TimerCycleStarts =>
          /\ lastTickAt # -1 => NextBoundaryAfter(lastTickAt) <= clock
          /\ deadline' = NextBoundaryAfter(clock) ]_vars

\* A cycle spanned three boundaries of a 2-second interval; one
\* timer-triggered cycle ran at second 5 and the select waits for second 6.
C12_Witness ==
    /\ refresh_secs = 2
    /\ tpc = "select"
    /\ skipped = 2
    /\ lastTickAt = 5
    /\ clock = 5
    /\ deadline = 6

\* C21: one call of fetch_repos ends within ten page requests, each turn of
\* its loop either leaving the loop or moving to the next page; it retains
\* at most 200 repositories, and it asks for a further page only while fewer
\* than 200 are retained and no page came back empty.
C21_ReposFetchBounded ==
    /\ [](/\ Len(rall) <= max_repos
          /\ rreq <= max_pages
          /\ rpc = "request" =>
                /\ rreq = rpage - 1
                /\ rpage <= max_pages
                /\ Len(rall) < max_repos
                /\ \A p \in 1..(rpage - 1) : PageOf(rsrc, p) # <<>>)
    /\ [][rpc = "request" => (rpc' # "request" \/ rpage' = rpage + 1)]_vars

\* 250 repositories served one per page: the tenth request is the last.
C21_Witness ==
    /\ rpc = "ok"
    /\ rsrc.n = 250
    /\ rsrc.size = 1
    /\ rreq = 10
    /\ Len(rall) = 10

\* C22: from a source that serves its N repositories in full pages of 100
\* the fetch retains the first min(N, 200) in the order served; the retained
\* list ends at the end of a page, so that for N = 250 it is the first two
\* pages and nothing of the third.
C22_First200InOrder ==
    (rpc = "ok" /\ rsrc.size = 100 /\ rsrc.failAt = 0) =>
        /\ rall = [i \in 1..Min(rsrc.n, max_repos) |-> i]
        /\ rsrc.n >= max_repos =>
              /\ rall = rsrc.pages[1] \o rsrc.pages[2]
              /\ rreq = 2

C22_Witness ==
    /\ rpc = "ok"
    /\ rsrc.n = 250
    /\ rsrc.size = 100
    /\ rsrc.failAt = 0
    /\ Len(rall) = 200
    /\ rall[200] = 200

Statuses == {Idle, Fetching, Success, Error("Profile fetch failed")}

DataFields == {"profile", "repos", "events", "stats", "rate_limit", "last_updated"}

\* C23: whatever state is saved, and with whatever status, loading the file
\* a successful save wrote yields that state's profile, repositories,
\* events, stats, rate limit and timestamp, with status Idle.
C23_LoadAfterSave ==
    \A s0 \in {fprev, fres}, st \in Statuses, old \in {AbsentFile, CorruptFile} :
        LET state == [s0 EXCEPT !.status = st]
            file == save(old, state, "ok")
            back == load_cached_state(file)
        IN  /\ load(file).res = "some"
            /\ \A f \in DataFields : back[f] = state[f]
            /\ back.status = Idle

\* A cycle that failed at the repositories step, with data of an earlier
\* cycle, is saved and loaded: the data is back and the Error is not.
C23_Witness ==
    /\ fpc = "returned"
    /\ fres.status.tag = "Error"
    /\ fres.profile # None
    /\ fres.repos # <<>>
    /\ fres.events # <<>>
    /\ fres.last_updated # None
    /\ load_cached_state(save(AbsentFile, fres, "ok")) = [fres EXCEPT !.status = Idle]

\* The poller task has not run yet: the cache file is the one load read.
AtStartup == ppc = "start"

VersionMismatch(file) ==
    file.kind = "json" /\ file.data.cache_version # CACHE_VERSION

\* C24: a well-formed cache file with another version tag is loaded as a
\* missing file is: load returns none, and the poller and the consumer start
\* from the empty default state, whatever the file holds.
C24_OtherVersionAsMissing ==
    (AtStartup /\ VersionMismatch(cache)) =>
        /\ load(cache).res = load(AbsentFile).res
        /\ load(cache).res = "none"
        /\ watch = GithubStateDefault
        /\ current = GithubStateDefault
        /\ view = GithubStateDefault

C24_Witness ==
    /\ AtStartup
    /\ VersionMismatch(cache)
    /\ cache.data.repos # <<>>
    /\ watch = GithubStateDefault
    /\ watch.repos = <<>>

\* C25 as stated: load returns none, not an error, when the file is absent,
\* when its content cannot be parsed and when its version tag differs.
C25_LoadReturnsNoneInAllThree ==
    (AtStartup /\ (cache.kind \in {"absent", "corrupt"} \/ VersionMismatch(cache))) =>
        load(cache).res = "none"

\* C25 amended: load returns none when the file is absent or its version tag
\* differs and an error when its content cannot be read or parsed;
\* load_cached_state turns the three cases into the same empty default state.
C25_LoadNoneOrErrSameStart ==
    AtStartup =>
        /\ (cache.kind = "absent" \/ VersionMismatch(cache)) => load(cache).res = "none"
        /\ cache.kind = "corrupt" => load(cache).res = "err"
        /\ (cache.kind \in {"absent", "corrupt"} \/ VersionMismatch(cache)) =>
              load_cached_state(cache) = GithubStateDefault

\* The program is started again on a file a failed write left unparsable.
C25_Witness ==
    /\ AtStartup
    /\ restarts = 0
    /\ cache.kind = "corrupt"
    /\ load(cache).res = "err"
    /\ load_cached_state(cache) = GithubStateDefault

\* C26: started on a missing, unreadable, malformed or version-mismatched
\* cache file, the program holds the empty default state with status Idle,
\* in the channel and in the consumer's copy, and the poller task can start.
C26_BadCacheStartsEmpty ==
    (AtStartup /\ (cache.kind \in {"absent", "corrupt"} \/ VersionMismatch(cache))) =>
        /\ watch = GithubStateDefault
        /\ watch.profile = None /\ watch.repos = <<>> /\ watch.events = <<>>
        /\ watch.stats = GithubStatsDefault
        /\ watch.status = Idle
        /\ view = watch
        /\ ENABLED PollerStart

\* Started on an unparsable file, the poller is in its initial cycle.
C26_Witness ==
    /\ cache.kind = "corrupt"
    /\ restarts = 1
    /\ ppc = "fetching"
    /\ trigger = "initial"
    /\ current = GithubStateDefault
    /\ epc = "render"

\* C27: a cache save that fails leaves the published snapshot as it is and
\* brings the poller to its select like a save that succeeds; there the tick
\* and any queued command can be served, and the next cycle takes the
\* published snapshot as its input.  (A step to "start" is the program
\* being run again.)
C27_FailedSaveChangesNothing ==
    /\ [][ (ppc = "save" /\ ppc' \notin {"save", "start"}) =>
              /\ ppc' = "select"
              /\ watch' = watch
              /\ changed' = changed
              /\ new_state' = new_state ]_vars
    /\ [][ (ppc = "select" /\ ppc' = "fetching") => current' = watch ]_vars
    /\ [](ppc = "select" =>
              /\ ENABLED PollerTick
              /\ cmdq # <<>> => ENABLED PollerRecv)

\* The write of a successful cycle's result failed part-way; the snapshot on
\* the channel is that result and the next timer cycle runs on it.
C27_Witness ==
    /\ restarts = MaxRestarts
    /\ cache.kind = "corrupt"
    /\ ppc = "fetching"
    /\ trigger = "timer"
    /\ watch = lastSave
    /\ watch.status = Success
    /\ current = watch

ProgramRunAgain == epc \in {"done", "error"} /\ epc' = "input"

\* C28: within a run the value of the snapshot channel changes only in the
\* poller's send, and the consumer's copy changes only in the update step,
\* where it becomes the channel's value; no action of any kind changes it.
C28_SingleWriter ==
    /\ [][ ~ProgramRunAgain =>
              /\ watch' # watch => (ppc = "publish" /\ watch' = new_state)
              /\ view' # view =>
                    (epc = "actions" /\ epc' = "render" /\ view' = watch) ]_vars
    /\ [](\A action \in ActionKinds : apply_action(view, action) = view)

\* A refresh was asked for and its result replaced the consumer's copy.
C28_Witness ==
    /\ restarts = 1
    /\ nRefreshCycles = 1
    /\ epc = "render"
    /\ view = watch
    /\ view.status = Success
    /\ view.repos # <<>>

\* What one push makes of the buffer b.
Pushed(b, m) ==
    Append(IF Len(b) >= MAX_LOG_MESSAGES THEN Tail(b) ELSE b, m)

\* C29: under every interleaving at most one task is inside an operation on
\* the log buffer; the buffer never holds more than 100 messages; what
\* get_messages collects is the buffer between two operations, with no push
\* half done; and each push and each clear takes effect as a whole on the
\* buffer it found.
C29_LogBufferAtomic ==
    /\ [](/\ \A t1, t2 \in Pushers \cup {Viewer} :
                (lpc[t1] # "idle" /\ lpc[t2] # "idle") => t1 = t2
          /\ \A t \in Pushers \cup {Viewer} : lpc[t] # "idle" => mlock = t
          /\ Len(msgs) <= MAX_LOG_MESSAGES
          /\ lpc[Viewer] = "get_collected" =>
                /\ got = msgs
                /\ Len(got) <= MAX_LOG_MESSAGES
                /\ \A t \in Pushers : lpc[t] = "idle")
    /\ [][ /\ \A t \in Pushers :
                (lpc[t] = "push_room" /\ lpc'[t] = "idle") =>
                    msgs' = Pushed(base[t], nmsg)
           /\ (lpc[Viewer] = "clear_locked" /\ lpc'[Viewer] = "idle") =>
                    msgs' = <<>> ]_vars

\* A push onto the full buffer is half done, the oldest message dropped and
\* the new one not yet in, while the other tasks are outside the buffer.
C29_Witness ==
    /\ lpc[1] = "push_room"
    /\ Len(base[1]) = MAX_LOG_MESSAGES
    /\ msgs = Tail(base[1])
    /\ mlock = 1
    /\ lpc[2] = "idle"
    /\ lpc[Viewer] = "idle"

\* C30: while its channel has a reader the sampler publishes at each tick the
\* sample collected at that tick; once the reader is gone it takes at most
\* one more tick, publishes nothing and ends at that attempt to publish; it
\* ends in no other case, stays ended, and touches neither the cache file
\* nor the command channel.
C30_SamplerUntilReaderGone ==
    /\ [](/\ (spc = "tick" /\ sreader) => (spub = sticks /\ swatch = sticks)
          /\ (spc = "send" /\ sreader) => (spub = sticks - 1 /\ swatch = sticks - 1)
          /\ swatch = spub
          /\ safter <= 1
          /\ spc = "ended" => ~sreader)
    /\ [][ /\ spc = "ended" => spc' = "ended"
           /\ (~sreader /\ spc # "ended") => spub' = spub
           /\ cache' = cache /\ cmdq' = cmdq ]_vars
    /\ (~sreader ~> spc = "ended")

\* The reader went away while the task waited for its fourth tick: three
\* samples were published and the task ended at the fourth.
C30_Witness ==
    /\ spc = "ended"
    /\ spub = 3
    /\ swatch = 3
    /\ sticks = 4
    /\ safter = 1

\* What is left of the frame: the actions still queued, twice, and one for a
\* Refresh being forwarded.
FrameLeft == 2 * Len(actionq) + (IF epc = "send_refresh" THEN 1 ELSE 0)

FrameRank ==
    CASE epc = "input" -> 0
      [] epc \in {"actions", "send_refresh"} -> 1
      [] epc = "render" -> 2
      [] epc = "cleanup" -> 3
      [] OTHER -> 4

\* C31: once Quit has been applied no frame is started: state.running stays
\* false and every step of run_app brings the current frame nearer to its
\* end and to the loop's exit; and run_app reaches its clean-up only with
\* state.running false.
C31_QuitEndsLoop ==
    /\ [](/\ epc = "input" => running
          /\ epc \in {"cleanup", "done"} => ~running)
    /\ [][ (~running /\ ~ProgramRunAgain) =>
              /\ ~running'
              /\ epc' # "input"
              /\ (epc' # epc \/ actionq' # actionq) =>
                    \/ FrameRank' > FrameRank
                    \/ (FrameRank' = FrameRank /\ FrameLeft' < FrameLeft) ]_vars

\* Quit was applied with a Refresh queued behind it; the frame was finished
\* and the loop left.
C31_Witness ==
    /\ epc = "done"
    /\ ~running
    /\ stopSent
    /\ nSent = 2

\* C32: with the username absent, loading the configuration fails and the
\* process ends there: the cache is not read, neither the poller nor the
\* sampler is started and no frame begins. With the username present the
\* configuration loads, the token set or not, and the token's absence shows
\* only in the Config's token field.
C32_NoUserNoStart ==
    /\ environ.GITHUB_USER = {} =>
          /\ mpc \in {"from_env", "config_error"}
          /\ started = {}
          /\ config = {}
    /\ (environ.GITHUB_USER # {} /\ mpc # "from_env") =>
          /\ mpc # "config_error"
          /\ \E c \in config : /\ c.github_token = environ.GITHUB_TOKEN
                               /\ {c.github_user} = environ.GITHUB_USER
    /\ "frame" \in started => {"cache_read", "poller", "sampler"} \subseteq started

\* The username absent, the token set, and the process ended at from_env.
C32_Witness ==
    /\ environ.GITHUB_USER = {}
    /\ environ.GITHUB_TOKEN # {}
    /\ mpc = "config_error"

\* C33: the rate-limit record gates nothing: every Refresh the poller takes
\* off the channel and every tick it handles starts a cycle from the
\* channel's value, and every cycle makes the profile request, its result
\* carrying the profile answered or the profile step's error, whatever the
\* record holds.
C33_RateLimitNeverGates ==
    [][ /\ (nRecv' = nRecv + 1 /\ cmdq # <<>> /\ Head(cmdq) = "Refresh") =>
              /\ ppc' = "fetching"
              /\ current' = watch
              /\ inflight' = inflight + 1
        /\ (ppc = "select" /\ ppc' \notin {"select", "start", "stopped"}) =>
              /\ ppc' = "fetching"
              /\ current' = watch
        /\ (ppc = "fetching" /\ ppc' = "publish") =>
              \E api \in outcomes :
                 IF api.profile.ok
                 THEN /\ new_state'.profile = Some(api.profile.val)
                      /\ new_state'.status.tag \in {"Success", "Error"}
                 ELSE new_state'.status.tag = "Error" ]_vars

\* A Refresh handled with the quota used up: the cycle ran.
C33_Witness ==
    /\ ppc = "publish"
    /\ trigger = "refresh"
    /\ current.rate_limit.limit > 0
    /\ current.rate_limit.remaining = 0

\* The first cycle of this run has called state_tx.send.
FirstCycleSent ==
    \/ ppc \in {"save", "select", "stopped"}
    \/ (ppc \in {"fetching", "publish"} /\ trigger # "initial")

Settled == {"Success", "Error"}

\* C34 as stated: the channel never holds a Fetching state and neither does
\* the consumer's copy; the channel holds the initial Idle state until the
\* first cycle has ended and a Success or Error state ever after.
C34_IdleThenSettledEverAfter ==
    /\ watch.status.tag # "Fetching"
    /\ view.status.tag # "Fetching"
    /\ ~FirstCycleSent => watch.status = Idle
    /\ FirstCycleSent => watch.status.tag \in Settled

\* C34, amended: the channel never holds a Fetching state and neither does
\* the consumer's copy; the channel holds the initial Idle state until the
\* first cycle's send; every value a send puts on the channel is a Success
\* or Error state and the channel stays so; and while the consumer holds its
\* receiver the channel is Success or Error from the first cycle's send on.
C34_NoFetchingPublished ==
    /\ [](/\ watch.status.tag # "Fetching"
          /\ view.status.tag # "Fetching"
          /\ ~FirstCycleSent => (watch.status = Idle /\ view.status = Idle)
          /\ (FirstCycleSent /\ RxAlive) => watch.status.tag \in Settled)
    /\ [][ ~ProgramRunAgain =>
              /\ watch' # watch => watch'.status.tag \in Settled
              /\ watch.status.tag \in Settled => watch'.status.tag \in Settled
              /\ view' # view => view' = watch ]_vars

\* The first cycle failed, was published, and the consumer copied it.
C34_Witness ==
    /\ FirstCycleSent
    /\ RxAlive
    /\ watch.status.tag = "Error"
    /\ view = watch

\* C35: the first timer-triggered cycle does not start until a full refresh
\* interval after the interval was created (second 0): before that the
\* poller has run the initial cycle only, Refresh commands apart.
C35_FirstTickAfterFullInterval ==
    lastTickAt # -1 => lastTickAt >= refresh_secs

\* The file holds, field for field, the persisted part of state.
FileHolds(file, state) ==
    /\ file.kind = "json"
    /\ \A f \in DataFields : file.data[f] = state[f]

\* C36 as stated: a cycle is saved only after its send; and whenever the
\* poller waits at the select and the file holds what the last save was
\* given, the file's persisted fields are those of the channel's value.
C36_FileEqualsChannelBetweenCycles ==
    /\ ppc = "save" => (pubDone /\ lastSend = new_state)
    /\ (ppc = "select" /\ FileHolds(cache, lastSave)) => FileHolds(cache, watch)

\* C36, amended: a cycle is saved only after its send; and while the consumer
\* holds its receiver, whenever the poller waits at the select and the file
\* holds what the last save was given, the file's persisted fields are those
\* of the channel's value, and every save that writes the file writes the
\* fields of the channel's value.
C36_FileEqualsChannelWhileReceived ==
    /\ [](/\ ppc = "save" => (pubDone /\ lastSend = new_state)
          /\ (ppc = "select" /\ RxAlive /\ FileHolds(cache, lastSave)) =>
                FileHolds(cache, watch))
    /\ [][ (ppc = "save" /\ ppc' = "select" /\ RxAlive
              /\ cache' # cache /\ cache'.kind = "json") =>
                FileHolds(cache', watch') ]_vars

\* Between two cycles, the consumer still there: the file holds the
\* successful snapshot that is on the channel.
C36_Witness ==
    /\ ppc = "select"
    /\ RxAlive
    /\ watch.status = Success
    /\ FileHolds(cache, lastSave)
    /\ FileHolds(cache, watch)

\* C37: the consumer sends Stop only when it leaves run_app after the frame
\* loop, at most once, and sends nothing after it; the channel being a
\* queue, Stop is behind every Refresh sent before it, so the poller takes
\* all of them, each starting its cycle, before it takes Stop, and takes
\* nothing after Stop.
C37_StopIsLast ==
    /\ [](/\ stopSent => epc = "done"
          /\ \A i \in 1..Len(cmdq) :
                cmdq[i] = "Stop" => (i = Len(cmdq) /\ stopSent)
          /\ (stopSent /\ PollerAlive) =>
                (cmdq # <<>> /\ cmdq[Len(cmdq)] = "Stop")
          /\ stopReceived =>
                /\ cmdq = <<>>
                /\ ppc = "stopped"
                /\ nRecv = nSent
                /\ nRefreshCycles = nSent - 1)
    /\ [][ (stopSent /\ ~ProgramRunAgain) =>
              /\ stopSent'
              /\ nSent' = nSent
              /\ cmdq' \in {cmdq, Tail(cmdq)} ]_vars

\* Two Refresh commands and then Stop were sent; the poller ran both cycles
\* and then took Stop.
C37_Witness ==
    /\ stopReceived
    /\ nSent = 3
    /\ nRefreshCycles = 2

\* The last n of the messages pushed, oldest first: the message pushed j
\* pushes ago has the text nmsg - j, counted in the MsgKinds texts.
LastPushed(n) ==
    [i \in 1..n |-> (nmsg + MsgKinds * MAX_LOG_MESSAGES - (n - i + 1)) % MsgKinds]

\* C38: whatever pushes and clears came before, get_messages returns the
\* last min(k, 100) of the k messages pushed since the last clear, in the
\* order they were pushed; and a push on a full buffer evicts the oldest
\* message only.
C38_LastHundredSinceClear ==
    /\ [](lpc[Viewer] = "get_collected" =>
            got = LastPushed(Min(npush, MAX_LOG_MESSAGES)))
    /\ [][ \A t \in Pushers :
             (lpc[t] = "push_room" /\ lpc'[t] = "idle"
                 /\ Len(base[t]) = MAX_LOG_MESSAGES) =>
                /\ Len(msgs') = MAX_LOG_MESSAGES
                /\ \A i \in 1..(MAX_LOG_MESSAGES - 1) : msgs'[i] = base[t][i + 1]
                /\ msgs'[MAX_LOG_MESSAGES] = nmsg ]_vars

\* get_messages after 102 pushes since the last clear.
C38_Witness ==
    /\ lpc[Viewer] = "get_collected"
    /\ npush = MAX_LOG_MESSAGES + 2
    /\ Len(got) = MAX_LOG_MESSAGES

PageActions == {"NextPage", "PrevPage", "GoToPage"}

\* The page an action asks for: the neighbour in the cycle of the four
\* pages, or the page of the index, Dashboard for an index above 3.
Asked(a, page) ==
    LET at == CHOOSE k \in 1..4 : PageOrder[k] = page IN
    CASE a.kind = "NextPage" -> PageOrder[(at % 4) + 1]
      [] a.kind = "PrevPage" -> PageOrder[((at + 2) % 4) + 1]
      [] a.kind = "GoToPage" ->
            IF a.index > 3 THEN "Dashboard" ELSE PageOrder[a.index + 1]

C40_NoAcceptedValueAborts ==
    ppc # "panicked"

====
